---- MODULE Spec2Model ----
(***************************************************************************)
(* A model of the Med_articles_bot pipeline: the two-stage summarizer and  *)
(* its retry controller (summarize_ru.py), the article store (db.py) and   *)
(* the delivery scheduler (telegram_bot.py).                               *)
(*                                                                         *)
(* Python values are modelled as follows.  An optional value (None or a    *)
(* value, NULL or a column value) is a sequence: <<>> for None/NULL and    *)
(* <<v>> for a set value.  A text is a sequence of lines; a line is a      *)
(* record of the features the code inspects: the leading "TAG:" it matches *)
(* (or NoTag), the length of the rest and the class of its last character. *)
(***************************************************************************)
EXTENDS Integers, Sequences, FiniteSets, TLC

VARIABLES
    stage,      \* the retry controller of one stage invocation (SpecStage)
    articles,   \* the articles table: a set of rows
    run,        \* the run_pipeline invocation in progress, or its outcome
    last,       \* what the last step did (a record of the step, for the properties)
    bot         \* run_bot: its position, the clock, and the scheduler's tables

vars == <<stage, articles, run, last, bot>>

-----------------------------------------------------------------------------
(* Optional values *)

None == <<>>
Some(v) == <<v>>

-----------------------------------------------------------------------------
(* Program constants of summarize_ru.py *)

MAX_MODEL_RETRIES == 6
MIN_SUMMARY_LEN == 200
BACKOFF_CAP == 60

-----------------------------------------------------------------------------
(* Texts *)

NoTag == ""

\* One line of model output.  For a line "TAG: head" with an upper-case tag,
\* tag is TAG and len/end describe head (len 0: nothing after the colon).
\* For any other line tag is NoTag and len/end describe the whole line.
Line(t, n, e) == [tag |-> t, len |-> n, end |-> e]

TagLen(t) ==
    CASE t = "EN_SUMMARY" -> 10
      [] t = "RU_TITLE" -> 8
      [] t = "RU_SUMMARY" -> 10
      [] t = "NOTE" -> 4
      [] OTHER -> 0

\* The line as plain text, when its tag is not one of the expected keys.
AsPlain(l) ==
    IF l.tag = NoTag THEN [len |-> l.len, end |-> l.end]
    ELSE IF l.len = 0 THEN [len |-> TagLen(l.tag) + 1, end |-> "punct"]
    ELSE [len |-> TagLen(l.tag) + 2 + l.len, end |-> l.end]

InSeq(x, s) == \E i \in 1..Len(s) : s[i] = x

RECURSIVE StripLeft(_)
StripLeft(b) ==
    IF b = <<>> THEN <<>>
    ELSE IF Head(b).len = 0 THEN StripLeft(Tail(b)) ELSE b

RECURSIVE StripRight(_)
StripRight(b) ==
    IF b = <<>> THEN <<>>
    ELSE IF b[Len(b)].len = 0 THEN StripRight(SubSeq(b, 1, Len(b) - 1)) ELSE b

\* text.strip() on the lines of a response: only blank lines fall off the
\* ends; a line that is a tag with nothing after it is not blank.
Blank(l) == l.tag = NoTag /\ l.len = 0

RECURSIVE StripLinesLeft(_)
StripLinesLeft(t) ==
    IF t = <<>> THEN <<>>
    ELSE IF Blank(Head(t)) THEN StripLinesLeft(Tail(t)) ELSE t

RECURSIVE StripLinesRight(_)
StripLinesRight(t) ==
    IF t = <<>> THEN <<>>
    ELSE IF Blank(t[Len(t)]) THEN StripLinesRight(SubSeq(t, 1, Len(t) - 1)) ELSE t

StripLines(t) == StripLinesRight(StripLinesLeft(t))

\* "\n".join(block).strip()
JoinStrip(b) == StripRight(StripLeft(b))

RECURSIVE SumLen(_)
SumLen(b) == IF b = <<>> THEN 0 ELSE Head(b).len + SumLen(Tail(b))

\* len() of a joined text: the lines and the newlines between them.
StrLen(b) == IF b = <<>> THEN 0 ELSE SumLen(b) + (Len(b) - 1)

\* a slip: no run of blank lines is collapsed
CollapseBlank_keep(b) == b

\* re.sub(r"\n{3,}", "\n\n", best): a run of two or more blank lines
\* (three or more newlines) becomes one blank line.
RECURSIVE CollapseBlank(_)
CollapseBlank(b) ==
    IF Len(b) < 2 THEN b
    ELSE IF b[1].len = 0 /\ b[2].len = 0 THEN CollapseBlank(Tail(b))
    ELSE <<Head(b)>> \o CollapseBlank(Tail(b))

\* a slip: the last candidate is kept, whatever its length
MaxByLen_last(cands) == cands[Len(cands)]

\* max(candidates, key=len): the first candidate of maximal length.
RECURSIVE MaxByLen(_)
MaxByLen(cands) ==
    IF Len(cands) = 1 THEN cands[1]
    ELSE LET rest == MaxByLen(Tail(cands))
         IN IF StrLen(rest) > StrLen(Head(cands)) THEN rest ELSE Head(cands)

\* The loop of parse_sections over the lines: st is
\* [key: the current key or NoTag, block: the current block,
\*  sections: key -> the blocks closed so far].
flush_block(st) ==
    IF st.key = NoTag THEN st
    ELSE [key |-> NoTag, block |-> <<>>,
          sections |-> IF st.block # <<>>
                       THEN [st.sections EXCEPT ![st.key] = Append(@, st.block)]
                       ELSE st.sections]

RECURSIVE ScanLines(_, _, _)
ScanLines(lines, keys, st) ==
    IF lines = <<>> THEN flush_block(st)
    ELSE LET l == Head(lines)
         IN IF l.tag # NoTag /\ InSeq(l.tag, keys)
            THEN LET f == flush_block(st)
                 IN ScanLines(Tail(lines), keys,
                              [f EXCEPT !.key = l.tag,
                                        !.block = IF l.len > 0
                                                  THEN <<[len |-> l.len, end |-> l.end]>>
                                                  ELSE <<>>])
            ELSE IF st.key # NoTag
            THEN ScanLines(Tail(lines), keys,
                           [st EXCEPT !.block = Append(@, AsPlain(l))])
            ELSE ScanLines(Tail(lines), keys, st)

RECURSIVE NonEmptyValues(_)
NonEmptyValues(blocks) ==
    IF blocks = <<>> THEN <<>>
    ELSE LET v == JoinStrip(Head(blocks))
         IN (IF v # <<>> THEN <<v>> ELSE <<>>) \o NonEmptyValues(Tail(blocks))

KeySet(keys) == {keys[i] : i \in 1..Len(keys)}

\* parse_sections(text, keys): key -> None or Some(value)
parse_sections(text, keys) ==
    IF text = <<>> THEN [k \in KeySet(keys) |-> None]
    ELSE LET done == ScanLines(StripLines(text), keys,
                               [key |-> NoTag, block |-> <<>>,
                                sections |-> [k \in KeySet(keys) |-> <<>>]])
         IN [k \in KeySet(keys) |->
                LET cands == NonEmptyValues(done.sections[k])
                IN IF cands # <<>> THEN Some(CollapseBlank(MaxByLen(cands)))
                   ELSE None]

summary_len(summary) == IF summary # <<>> THEN StrLen(summary) ELSE 0

HasMaxTokens(finish_reason) == finish_reason = "FinishReason.MAX_TOKENS"

\* a slip: the tail is not right-trimmed before its end is examined
is_incomplete_text_untrimmed(text, finish_reason) ==
    IF text = <<>> THEN TRUE
    ELSE IF finish_reason # "" /\ HasMaxTokens(finish_reason) THEN TRUE
    ELSE text[Len(text)].end \in {"dots", "punct"}

\* is_incomplete_text(text, finish_reason); text is a joined value.
\* <<>> is the empty string; a text of blank lines only is whitespace.
\* End classes of a line: "period" (a full stop), "punct" (comma, semicolon
\* or colon), "dots" (three full stops "..."), "ellipsis" (the single
\* character U+2026), "word" (anything else), "none" (a blank line).
is_incomplete_text(text, finish_reason) ==
    IF text = <<>> THEN TRUE
    ELSE LET tail == StripRight(text)
         IN IF finish_reason # "" /\ HasMaxTokens(finish_reason) THEN TRUE
            ELSE IF tail # <<>> /\ tail[Len(tail)].end = "dots" THEN TRUE
            ELSE IF tail # <<>> /\ tail[Len(tail)].end = "punct" THEN TRUE
            ELSE FALSE

-----------------------------------------------------------------------------
(* The model provider: what one call_gemini call can do *)

\* An exception is its type name and the substrings of repr(err).lower()
\* that is_resource_exhausted looks for.
\* An exception a model call raises.  marks are the substrings of its lower-
\* cased text that is_resource_exhausted looks for; uniform is where in its
\* interval the random.uniform of the backoff_sleep that follows it falls
\* (0: the lower end, 1: the upper end).
Exc(type, marks) == [kind |-> "raise", type |-> type, marks |-> marks, uniform |-> 0]

Exceptions ==
    { Exc("ClientError", {"429", "resource_exhausted"}),
      Exc("APIError", {"rate", "limit"}),
      Exc("ReadTimeout", {}),
      Exc("ValueError", {"limit"}) }

Response(text, finish_reason, usage) ==
    [kind |-> "response", text |-> text, finish_reason |-> finish_reason,
     usage |-> usage]

FinishReasons == {"", "FinishReason.STOP", "FinishReason.MAX_TOKENS"}

\* usage_metadata as call_gemini reads it: absent (all zero) or reported.
NoUsage == [input |-> 0, output |-> 0, total |-> 0]
SomeUsage == [input |-> 2, output |-> 1, total |-> 4]

EnTag == Line("EN_SUMMARY", 0, "none")
RuTitle == Line("RU_TITLE", 40, "word")
RuTag == Line("RU_SUMMARY", 0, "none")

EnGood == <<EnTag, Line(NoTag, 250, "period")>>
RuGood == <<RuTitle, RuTag, Line(NoTag, 300, "period")>>

\* The responses a Stage A call is given: a good one (with and without a
\* finish reason), one cut at the token limit, and one for each way the
\* text can fail a validator.
EnResponses ==
    { Response(EnGood, "FinishReason.STOP", SomeUsage),
      Response(EnGood, "", NoUsage),
      Response(EnGood, "FinishReason.MAX_TOKENS", SomeUsage),
      Response(<<>>, "", NoUsage),
      Response(<<Line(NoTag, 250, "period")>>, "FinishReason.STOP", SomeUsage),
      Response(<<EnTag, Line(NoTag, 250, "punct")>>, "FinishReason.STOP", SomeUsage),
      Response(<<EnTag, Line(NoTag, 250, "dots")>>, "FinishReason.STOP", SomeUsage),
      Response(<<Line("EN_SUMMARY", 120, "period")>>, "FinishReason.STOP", SomeUsage),
      Response(<<Line("EN_SUMMARY", 120, "dots")>>, "FinishReason.STOP", SomeUsage) }

\* The responses a Stage B call is given.
RuResponses ==
    { Response(RuGood, "FinishReason.STOP", SomeUsage),
      Response(RuGood, "", NoUsage),
      Response(RuGood, "FinishReason.MAX_TOKENS", SomeUsage),
      Response(<<>>, "", NoUsage),
      Response(<<RuTag, Line(NoTag, 300, "period")>>, "FinishReason.STOP", SomeUsage),
      Response(<<RuTitle, RuTag, Line(NoTag, 300, "punct")>>, "FinishReason.STOP", SomeUsage) }

Responses(kind) == IF kind = "en" THEN EnResponses ELSE RuResponses

Outcomes(kind) == Exceptions \cup Responses(kind)

-----------------------------------------------------------------------------
(* The retry controller: summarize_abstract_en and translate_summary_ru *)

zero_tokens == [input |-> 0, output |-> 0, total |-> 0]

\* a slip: the counters are overwritten instead of added to
add_tokens_overwrite(acc, delta) ==
    [input |-> delta.input, output |-> delta.output, total |-> delta.total]

add_tokens(acc, delta) ==
    [input |-> acc.input + delta.input,
     output |-> acc.output + delta.output,
     total |-> acc.total + delta.total]

is_resource_exhausted(err) ==
    \/ "resource_exhausted" \in err.marks
    \/ "429" \in err.marks
    \/ "quota" \in err.marks
    \/ ("rate" \in err.marks /\ "limit" \in err.marks)

Min(a, b) == IF a < b THEN a ELSE b

\* backoff_sleep(attempt): the base delay; the jitter is drawn on top of it.
\* a slip: the exponent is one too large
backoff_base_next(attempt) == Min(BACKOFF_CAP, 2 ^ (attempt + 1))

backoff_base(attempt) == Min(BACKOFF_CAP, 2 ^ attempt)

\* backoff_sleep(attempt): the time.sleep it makes.  Durations are counted in
\* quarters of a second, in which 0.25 * base seconds is base: jitter4 is
\* the jitter and 4 * base + jitter4 the sleep.
backoff_sleep(attempt, uniform) ==
    [kind |-> "backoff", base |-> backoff_base(attempt),
     jitter4 |-> uniform * backoff_base(attempt)]

build_en_summary_prompt(abstract_en) ==
    <<[template |-> "en_summary", input |-> abstract_en]>>

build_translate_prompt(title_en, summary_en) ==
    <<[template |-> "translate", input |-> <<title_en, summary_en>>]>>

Correction(text) == [template |-> "correction", input |-> text]

\* a slip: the instruction takes the place of the prompt
Prepend_replace(instruction, prompt) == <<Correction(instruction)>>

\* prompt = "<instruction>\n\n" + prompt
Prepend(instruction, prompt) == <<Correction(instruction)>> \o prompt

\* The state of one stage invocation.  kind, pmid, prompt, attempt, last_text,
\* last_finish_reason and tokens_used are the locals of the function; pc is
\* "loop" until it returns; payload and reason are what it returns; files
\* lists the diagnostics files written, one entry per write_text; sleeps
\* lists the time.sleep calls.  calls, sent, reported and lastOutcome record
\* the model calls issued, the prompt of each, the usage the responses
\* reported and what the latest call did.
StageStart(kind, pmid, prompt) ==
    [kind |-> kind, pmid |-> pmid, prompt |-> prompt, attempt |-> 0,
     last_text |-> <<>>, last_finish_reason |-> "",
     tokens_used |-> zero_tokens,
     pc |-> "loop", payload |-> None, reason |-> None,
     files |-> <<>>, sleeps |-> <<>>,
     calls |-> 0, sent |-> <<>>, reported |-> zero_tokens, lastOutcome |-> None]

Called(st, o) ==
    [st EXCEPT !.calls = @ + 1, !.sent = Append(@, st.prompt),
               !.lastOutcome = Some(o),
               !.reported = IF o.kind = "response"
                            THEN [input |-> @.input + o.usage.input,
                                  output |-> @.output + o.usage.output,
                                  total |-> @.total + o.usage.total]
                            ELSE @]

\* continue: the loop takes its next value of attempt at once.  The
\* time.sleep(0.1) that ends the loop body (lines 273 and 323) follows a
\* try statement each of whose branches ends in continue or return, so no
\* iteration reaches it and sleeps never gets an entry for it.
Continue(st) == [st EXCEPT !.attempt = @ + 1]

Return(st, payload, reason) ==
    [st EXCEPT !.pc = "returned", !.payload = payload, !.reason = reason]

\* a slip: a rate-limit retry also prepends a corrective instruction
on_exception_reprompt(st, e, file, tag) ==
    IF is_resource_exhausted(e)
    THEN Continue([st EXCEPT !.sleeps = Append(@, backoff_sleep(st.attempt, e.uniform)),
                             !.prompt = Prepend("Rate limited. Try again.", @)])
    ELSE Return([st EXCEPT !.files = Append(@, <<st.pmid, file>>)],
                None, Some(<<tag, e.type>>))

\* a slip: every exception is retried
on_exception_retry_all(st, e, file, tag) ==
    Continue([st EXCEPT !.sleeps = Append(@, backoff_sleep(st.attempt, e.uniform))])

\* except Exception as e: (the same in both stages, up to the names)
on_exception(st, e, file, tag) ==
    IF is_resource_exhausted(e)
    THEN Continue([st EXCEPT !.sleeps = Append(@, backoff_sleep(st.attempt, e.uniform))])
    ELSE Return([st EXCEPT !.files = Append(@, <<st.pmid, file>>)],
                None, Some(<<tag, e.type>>))

Received(st, o) ==
    [st EXCEPT !.last_text = o.text,
               !.last_finish_reason = o.finish_reason,
               !.tokens_used = add_tokens(@, o.usage)]

\* One iteration of the for loop of summarize_abstract_en.
en_attempt(st0, o) ==
    LET st == Called(st0, o)
    IN IF o.kind = "raise"
       THEN on_exception(st, o, "summary_exception", "en_exception")
       ELSE LET got == Received(st, o)
                summary_en == parse_sections(got.last_text, <<"EN_SUMMARY">>)["EN_SUMMARY"]
            IN IF summary_en = None
               THEN Continue([got EXCEPT !.prompt =
                        Prepend("Format is invalid. Return exactly EN_SUMMARY field.", @)])
               ELSE IF is_incomplete_text(summary_en[1], got.last_finish_reason)
               THEN Continue([got EXCEPT !.prompt =
                        Prepend("Summary is incomplete. Return a complete summary with a full ending and no ellipsis.", @)])
               ELSE IF summary_len(summary_en[1]) < MIN_SUMMARY_LEN
               THEN Continue([got EXCEPT !.prompt =
                        Prepend("Summary is too short. Rewrite around 1000 characters.", @)])
               ELSE Return(got, summary_en, None)

\* One iteration of the for loop of translate_summary_ru.
ru_attempt(st0, o) ==
    LET st == Called(st0, o)
    IN IF o.kind = "raise"
       THEN on_exception(st, o, "translate_exception", "ru_exception")
       ELSE LET got == Received(st, o)
                parsed == parse_sections(got.last_text, <<"RU_TITLE", "RU_SUMMARY">>)
                ru_title == parsed["RU_TITLE"]
                ru_summary == parsed["RU_SUMMARY"]
            IN IF ru_title = None \/ ru_summary = None
               THEN Continue([got EXCEPT !.prompt =
                        Prepend("Format is invalid. Return only RU_TITLE and RU_SUMMARY.", @)])
               ELSE IF is_incomplete_text(ru_summary[1], got.last_finish_reason)
               THEN Continue([got EXCEPT !.prompt =
                        Prepend("RU summary is incomplete. Translate the entire English summary and end with a full sentence.", @)])
               ELSE Return(got, Some(<<ru_title[1], ru_summary[1]>>), None)

\* a slip: the raw output is written without the finish reason being kept
after_loop_unknown(st) ==
    LET file == IF st.kind = "en" THEN "summary_raw" ELSE "translate_raw"
        tag == IF st.kind = "en" THEN "en_incomplete" ELSE "ru_incomplete"
    IN Return([st EXCEPT !.files = Append(@, <<st.pmid, file>>)],
              None, Some(<<tag, "unknown">>))

\* What follows the for loop once its attempts are used up.
after_loop(st) ==
    LET file == IF st.kind = "en" THEN "summary_raw" ELSE "translate_raw"
        tag == IF st.kind = "en" THEN "en_incomplete" ELSE "ru_incomplete"
    IN Return([st EXCEPT !.files = Append(@, <<st.pmid, file>>)],
              None,
              Some(<<tag, IF st.last_finish_reason # ""
                          THEN st.last_finish_reason ELSE "unknown">>))

stage_attempt(st, o) ==
    IF st.kind = "en" THEN en_attempt(st, o) ELSE ru_attempt(st, o)

-----------------------------------------------------------------------------
(* The articles table of db.py *)

\* A row of articles.  pmid is the primary key; title_en, abstract_en,
\* publication_date and fetched_at are the raw columns upsert_raw_articles
\* writes (title_en stands for the other metadata columns written with it);
\* the last five are the summarization columns.
NewRow(a, now) ==
    [pmid |-> a.pmid[1], title_en |-> a.title, abstract_en |-> a.abstract,
     publication_date |-> a.publication_date, fetched_at |-> Some(now),
     title_ru |-> None, summary_en |-> None, summary_ru |-> None,
     tg_message_html |-> None, summarized_at |-> None]

\* a slip: INSERT OR REPLACE, which rewrites the whole row
UpsertRow_replace(arts, a, now) ==
    {r \in arts : r.pmid # a.pmid[1]} \cup {NewRow(a, now)}

\* INSERT ... ON CONFLICT(pmid) DO UPDATE SET <the raw columns>
UpsertRow(arts, a, now) ==
    IF \E r \in arts : r.pmid = a.pmid[1]
    THEN { IF r.pmid = a.pmid[1]
           THEN [r EXCEPT !.title_en = a.title,
                          !.abstract_en = a.abstract,
                          !.publication_date = a.publication_date,
                          !.fetched_at = Some(now)]
           ELSE r : r \in arts }
    ELSE arts \cup {NewRow(a, now)}

RECURSIVE UpsertRows(_, _, _)
UpsertRows(arts, rows, now) ==
    IF rows = <<>> THEN arts
    ELSE UpsertRows(UpsertRow(arts, Head(rows), now), Tail(rows), now)

HasPmid(a) == a.pmid # None

\* upsert_raw_articles(articles): the table afterwards and the count returned
upsert_raw_articles(arts, batch, now) ==
    IF batch = <<>> THEN [articles |-> arts, count |-> 0]
    ELSE LET rows == SelectSeq(batch, HasPmid)
         IN [articles |-> UpsertRows(arts, rows, now), count |-> Len(rows)]

\* {p for p in pmids if p}
UniquePmids(pmids) == {pmids[i] : i \in 1..Len(pmids)}

\* get_existing_pmids(pmids)
get_existing_pmids(arts, pmids) ==
    {r.pmid : r \in {x \in arts : x.pmid \in UniquePmids(pmids)}}

\* An abstract is a class of strings: "" (empty), "blank" (spaces only),
\* "tabs" (whitespace with a tab or a newline in it), "text" (anything else).
\* SQL TRIM takes off spaces only.
\* abstract_en IS NOT NULL AND LENGTH(TRIM(abstract_en)) > 0
HasAbstract(r) == r.abstract_en # None /\ r.abstract_en[1] \notin {"", "blank"}

\* (row.get("abstract_en") or "").strip(): str.strip takes off all whitespace
StripsToEmpty(abstract_en) ==
    abstract_en = None \/ abstract_en[1] \in {"", "blank", "tabs"}

\* The rows the SELECT of get_unsummarized_for_pmids matches.
Unsummarized(arts, pmids) ==
    {r \in arts : /\ r.summarized_at = None
                  /\ HasAbstract(r)
                  /\ r.pmid \in UniquePmids(pmids)}

\* ORDER BY fetched_at DESC: every order of the rows the clause allows
\* (rows with equal fetched_at come in any order).
OrderedByFetchedDesc(rows) ==
    LET n == Cardinality(rows)
    IN { s \in [1..n -> rows] :
            /\ \A i, j \in 1..n : i # j => s[i] # s[j]
            /\ \A i \in 1..n : \A j \in 1..n :
                  i < j => s[i].fetched_at[1] >= s[j].fetched_at[1] }

\* a slip: the SELECT has lost its WHERE clause
get_unsummarized_for_pmids_unfiltered(arts, pmids, limit) ==
    { SubSeq(s, 1, Min(limit, Len(s))) : s \in OrderedByFetchedDesc(arts) }

\* get_unsummarized_for_pmids(pmids, limit): the lists it may return
get_unsummarized_for_pmids(arts, pmids, limit) ==
    IF pmids = <<>> THEN {<<>>}
    ELSE { SubSeq(s, 1, Min(limit, Len(s))) :
              s \in OrderedByFetchedDesc(Unsummarized(arts, pmids)) }

\* a slip: the UPDATE leaves summarized_at out
mark_summarized_no_timestamp(arts, pmid, title_ru, summary_en, summary_ru, tg_message_html, now) ==
    { IF r.pmid = pmid
      THEN [r EXCEPT !.title_ru = Some(title_ru),
                     !.summary_en = Some(summary_en),
                     !.summary_ru = Some(summary_ru),
                     !.tg_message_html = Some(tg_message_html)]
      ELSE r : r \in arts }

\* mark_summarized(pmid, title_ru, summary_en, summary_ru, tg_message_html):
\* one UPDATE of the five columns (abstract_ru, always NULL, is left out)
mark_summarized(arts, pmid, title_ru, summary_en, summary_ru, tg_message_html, now) ==
    { IF r.pmid = pmid
      THEN [r EXCEPT !.title_ru = Some(title_ru),
                     !.summary_en = Some(summary_en),
                     !.summary_ru = Some(summary_ru),
                     !.tg_message_html = Some(tg_message_html),
                     !.summarized_at = Some(now)]
      ELSE r : r \in arts }

-----------------------------------------------------------------------------
(* summarize_one and run_pipeline *)

\* What the provider does on the successive calls of one stage invocation:
\* o1 on the first k calls and o2 on every later call.
Script(k, o1, o2) == [i \in 1..MAX_MODEL_RETRIES |-> IF i <= k THEN o1 ELSE o2]

RECURSIVE RunStage(_, _)
RunStage(st, script) ==
    IF st.pc = "returned" THEN st
    ELSE IF st.attempt = MAX_MODEL_RETRIES THEN after_loop(st)
    ELSE RunStage(stage_attempt(st, script[st.attempt + 1]), script)

summarize_abstract_en(pmid, abstract_en, script) ==
    RunStage(StageStart("en", pmid, build_en_summary_prompt(abstract_en)), script)

translate_summary_ru(pmid, title_en, summary_en, script) ==
    RunStage(StageStart("ru", pmid, build_translate_prompt(title_en, summary_en)), script)

make_telegram_html(title_ru, date, summary_ru) ==
    [title |-> title_ru, date |-> date, summary |-> summary_ru]

Failed(tokens, reason, en, ru) ==
    [res |-> None, tokens |-> tokens, reason |-> reason, en |-> en, ru |-> ru]

\* A stage that was not invoked.
NotRun == [pc |-> "not_run", tokens_used |-> zero_tokens, reported |-> zero_tokens,
           calls |-> 0, payload |-> None, reason |-> None]

\* summarize_one after translate_summary_ru has returned ru
after_translate(row, en, ru) ==
    LET total_tokens == add_tokens(add_tokens(zero_tokens, en.tokens_used),
                                   ru.tokens_used)
    IN IF ru.payload = None
       THEN Failed(total_tokens, IF ru.reason # None THEN ru.reason
                                 ELSE Some(<<"ru_failed", "">>), en, ru)
       ELSE [res |-> Some([title_ru |-> ru.payload[1][1],
                           summary_en |-> en.payload[1],
                           summary_ru |-> ru.payload[1][2],
                           tg_message_html |->
                               make_telegram_html(ru.payload[1][1],
                                                  row.publication_date,
                                                  ru.payload[1][2])]),
             tokens |-> total_tokens, reason |-> None, en |-> en, ru |-> ru]

\* a slip: the translation is asked for whatever Stage A returned
after_summarize_translate_anyway(row, en, scriptRu) ==
    IF en.payload = None
    THEN Failed(add_tokens(zero_tokens, en.tokens_used),
                IF en.reason # None THEN en.reason ELSE Some(<<"en_failed", "">>),
                en,
                translate_summary_ru(row.pmid, row.title_en, <<>>, scriptRu))
    ELSE after_translate(row, en,
                         translate_summary_ru(row.pmid, row.title_en,
                                              en.payload[1], scriptRu))

\* summarize_one after summarize_abstract_en has returned en
after_summarize(row, en, scriptRu) ==
    IF en.payload = None
    THEN Failed(add_tokens(zero_tokens, en.tokens_used),
                IF en.reason # None THEN en.reason ELSE Some(<<"en_failed", "">>),
                en, NotRun)
    ELSE after_translate(row, en,
                         translate_summary_ru(row.pmid, row.title_en,
                                              en.payload[1], scriptRu))

\* a slip: the abstract is tested as the SELECT of the store tests it
summarize_one_sql_trim(row, scriptEn, scriptRu) ==
    IF ~HasAbstract(row)
    THEN Failed(zero_tokens, Some(<<"missing_abstract", "">>), NotRun, NotRun)
    ELSE after_summarize(row,
                         summarize_abstract_en(row.pmid, row.abstract_en[1], scriptEn),
                         scriptRu)

\* summarize_one(client, row): res, tokens and reason are what it returns;
\* en and ru are the two stage invocations it made.
summarize_one(row, scriptEn, scriptRu) ==
    IF StripsToEmpty(row.abstract_en)
    THEN Failed(zero_tokens, Some(<<"missing_abstract", "">>), NotRun, NotRun)
    ELSE after_summarize(row,
                         summarize_abstract_en(row.pmid, row.abstract_en[1], scriptEn),
                         scriptRu)

\* a slip: a reason that is already in the histogram is not counted again
CountReason_once(fail_reasons, key) ==
    IF key \in DOMAIN fail_reasons THEN fail_reasons ELSE fail_reasons @@ (key :> 1)

\* fail_reasons[key] = fail_reasons.get(key, 0) + 1
CountReason(fail_reasons, key) ==
    IF key \in DOMAIN fail_reasons
    THEN [fail_reasons EXCEPT ![key] = @ + 1]
    ELSE fail_reasons @@ (key :> 1)

NoReasons == [k \in {} |-> 0]

Idle == [pc |-> "idle"]

Stats(fetched, fetched_total, skipped_existing, pending, summarized, failed, tokens, fail_reasons) ==
    [fetched |-> fetched, fetched_total |-> fetched_total,
     skipped_existing |-> skipped_existing, pending |-> pending,
     summarized |-> summarized, failed |-> failed,
     tokens_input |-> tokens.input, tokens_output |-> tokens.output,
     tokens_total |-> tokens.total, fail_reasons |-> fail_reasons]

\* The PMIDs of the articles of a batch that have one.
BatchPmids(batch) ==
    {batch[i].pmid[1] : i \in {j \in 1..Len(batch) : batch[j].pmid # None}}

\* The record of a step, for the properties: the operation, the article it
\* was about, the PMIDs of the batch it was given, the model calls it issued,
\* whether it wrote the summarization columns, the stage invocations it
\* made, the call of run_pipeline's try block that raised, if one did, and
\* the identifiers of the records the fetch of run_pipeline returned.
Step(op, pmid, batch, calls, marked, one) ==
    [op |-> op, pmid |-> pmid, pmids |-> BatchPmids(batch), calls |-> calls,
     marked |-> marked, one |-> one, raised |-> "", fetched |-> <<>>]

NoItem == Failed(zero_tokens, None, NotRun, NotRun)

\* a slip: the records already in the store are not left out
fresh_articles_all(arts, batch) == SelectSeq(batch, HasPmid)

\* fresh_articles = [a for a in fetched if a.get("pmid") and not in existing]
fresh_articles(arts, batch) ==
    LET with_pmid == SelectSeq(batch, HasPmid)
        existing == get_existing_pmids(arts, [i \in 1..Len(with_pmid) |->
                                                 with_pmid[i].pmid[1]])
        IsFresh(a) == HasPmid(a) /\ a.pmid[1] \notin existing
    IN SelectSeq(batch, IsFresh)

\* The try block of run_pipeline once the fetch has returned batch.
IngestBatch(arts, batch, fresh, fault, now) ==
    IF fault = "get_existing_raises"
    THEN [articles |-> arts, fetched_total |-> Len(batch),
          fetched_count |-> 0, skipped_existing |-> 0, new_pmids |-> <<>>,
          raised |-> "get_existing_pmids"]
    ELSE IF fault = "upsert_raises"
    THEN [articles |-> arts, fetched_total |-> Len(batch),
          fetched_count |-> 0,
          skipped_existing |-> Len(batch) - Len(fresh),
          new_pmids |-> <<>>, raised |-> "upsert_raw_articles"]
    ELSE LET up == upsert_raw_articles(arts, fresh, now)
         IN [articles |-> up.articles, fetched_total |-> Len(batch),
             fetched_count |-> up.count,
             skipped_existing |-> Len(batch) - Len(fresh),
             new_pmids |-> [i \in 1..Len(fresh) |-> fresh[i].pmid[1]],
             raised |-> ""]

\* The try block of run_pipeline (fetch, dedup, ingest): fetched is None
\* when the fetch raised; fault names the store call that raised, if any
\* ("get_existing_raises", "upsert_raises").
Ingest(arts, fetched, fault, now) ==
    IF fetched = None
    THEN [articles |-> arts, fetched_total |-> 0, fetched_count |-> 0,
          skipped_existing |-> 0, new_pmids |-> <<>>,
          raised |-> "fetch_top_journal_articles_last_days"]
    ELSE IngestBatch(arts, fetched[1], fresh_articles(arts, fetched[1]), fault, now)

\* a slip: the reason is counted once, not once per pending item
Early_reason_once(caller, ing, pending, env) ==
    [pc |-> "returned", caller |-> caller, pending |-> pending, idx |-> 0,
     ok |-> 0, failed |-> 0, fail_reasons |-> NoReasons,
     tokens_total |-> zero_tokens, ing |-> ing,
     calls |-> 0, reported |-> zero_tokens,
     stats |-> Some(IF pending = <<>>
               THEN Stats(ing.fetched_count, ing.fetched_total,
                          ing.skipped_existing, 0, 0, 0, zero_tokens, NoReasons)
               ELSE Stats(ing.fetched_count, ing.fetched_total,
                          ing.skipped_existing, Len(pending), 0, Len(pending),
                          zero_tokens,
                          (IF env = "no_genai"
                           THEN <<"missing_google_genai", "">>
                           ELSE <<"missing_gemini_api_key", "">>)
                              :> 1))]

\* What run_pipeline holds when it returns before the loop, pending being
\* what get_unsummarized_for_pmids returned.
Early(caller, ing, pending, env) ==
    [pc |-> "returned", caller |-> caller, pending |-> pending, idx |-> 0,
     ok |-> 0, failed |-> 0, fail_reasons |-> NoReasons,
     tokens_total |-> zero_tokens, ing |-> ing,
     calls |-> 0, reported |-> zero_tokens,
     stats |-> Some(IF pending = <<>>
               THEN Stats(ing.fetched_count, ing.fetched_total,
                          ing.skipped_existing, 0, 0, 0, zero_tokens, NoReasons)
               ELSE Stats(ing.fetched_count, ing.fetched_total,
                          ing.skipped_existing, Len(pending), 0, Len(pending),
                          zero_tokens,
                          (IF env = "no_genai"
                           THEN <<"missing_google_genai", "">>
                           ELSE <<"missing_gemini_api_key", "">>)
                              :> Len(pending)))]

\* run_pipeline after its try block, up to the loop over the pending items.
Select(caller, ing, pending, env) ==
    IF pending = <<>> \/ env \in {"no_genai", "no_key"}
    THEN run' = Early(caller, ing, pending, env)
    ELSE IF env = "client_raises"
    THEN run' = [pc |-> "raised", caller |-> caller]
    ELSE run' = [Early(caller, ing, pending, env) EXCEPT !.pc = "items",
                                                         !.stats = None]

\* get_unsummarized_for_pmids returns [] before it opens the store when it
\* is given no pmid, so it can raise only when there is a new pmid.
\* a slip: the fetch is called outside the try block
BeginWith_fetch_outside_try(caller, ing, batch, limit, env) ==
    /\ articles' = ing.articles
    /\ last' = [Step("begin", "", batch, 0, FALSE, NoItem) EXCEPT
                   !.raised = ing.raised,
                   !.fetched = [i \in 1..Len(batch) |-> batch[i].pmid]]
    /\ IF ing.raised = "fetch_top_journal_articles_last_days"
       THEN run' = [pc |-> "raised", caller |-> caller]
       ELSE \E pending \in get_unsummarized_for_pmids(ing.articles, ing.new_pmids, limit) :
               Select(caller, ing, pending, env)

BeginWith(caller, ing, batch, limit, env) ==
    /\ articles' = ing.articles
    /\ last' = [Step("begin", "", batch, 0, FALSE, NoItem) EXCEPT
                   !.raised = ing.raised,
                   !.fetched = [i \in 1..Len(batch) |-> batch[i].pmid]]
    /\ IF env = "select_raises" /\ ing.new_pmids # <<>>
       THEN run' = [pc |-> "raised", caller |-> caller]
       ELSE \E pending \in get_unsummarized_for_pmids(ing.articles, ing.new_pmids, limit) :
               Select(caller, ing, pending, env)

\* run_pipeline up to the loop over the pending items.  env tells what the
\* run meets: "ok", the google-genai package missing ("no_genai"),
\* GEMINI_API_KEY missing ("no_key"), or the call that raises.
Begin(caller, fetched, limit, env, now) ==
    BeginWith(caller, Ingest(articles, fetched, env, now),
              IF fetched = None THEN <<>> ELSE fetched[1], limit, env)

\* One iteration of the loop over pending, summarize_one having returned
\* one: either the failure bookkeeping or mark_summarized.
ItemWith(row, one, storeRaises, now) ==
    LET calls == one.en.calls + one.ru.calls
        counted == [run EXCEPT !.idx = @ + 1,
                               !.tokens_total = add_tokens(@, one.tokens),
                               !.calls = @ + calls,
                               !.reported =
                                   [input |-> @.input + one.en.reported.input
                                                      + one.ru.reported.input,
                                    output |-> @.output + one.en.reported.output
                                                        + one.ru.reported.output,
                                    total |-> @.total + one.en.reported.total
                                                      + one.ru.reported.total]]
    IN IF one.res = None
       THEN /\ run' = [counted EXCEPT !.failed = @ + 1,
                                      !.fail_reasons =
                                          CountReason(@, IF one.reason # None
                                                         THEN one.reason[1]
                                                         ELSE <<"unknown", "">>)]
            /\ articles' = articles
            /\ last' = Step("item", row.pmid, <<>>, calls, FALSE, one)
       ELSE IF storeRaises
       THEN /\ run' = [pc |-> "raised", caller |-> run.caller]
            /\ articles' = articles
            /\ last' = Step("item", row.pmid, <<>>, calls, FALSE, one)
       ELSE /\ run' = [counted EXCEPT !.ok = @ + 1]
            /\ articles' = mark_summarized(articles, row.pmid, one.res[1].title_ru,
                                           one.res[1].summary_en, one.res[1].summary_ru,
                                           one.res[1].tg_message_html, now)
            /\ last' = Step("item", row.pmid, <<>>, calls, TRUE, one)

\* One iteration of the loop over pending: summarize_one, then the rest.
Item(scriptEn, scriptRu, storeRaises, now) ==
    ItemWith(run.pending[run.idx + 1],
             summarize_one(run.pending[run.idx + 1], scriptEn, scriptRu),
             storeRaises, now)

\* The return after the loop.
End ==
    /\ run' = [run EXCEPT !.pc = "returned",
                          !.stats = Some(Stats(run.ing.fetched_count,
                                               run.ing.fetched_total,
                                               run.ing.skipped_existing,
                                               Len(run.pending), run.ok, run.failed,
                                               run.tokens_total, run.fail_reasons))]
    /\ articles' = articles
    /\ last' = Step("end", "", <<>>, 0, FALSE, NoItem)

-----------------------------------------------------------------------------
(* The inputs of the store and pipeline operations *)

MaxTime == 2
MaxBatch == 2
MaxDirect == 1
SmallLimit == 1
CLI_LIMIT == 200
SwitchAt == 2

PMIDs == {"p1", "p2"}
Times == 1..MaxTime
Days == {1}

\* The clock readings mark_summarized may store: summarized_at is only ever
\* tested for NULL, so one reading stands for all.
StampTimes == {1}

Article(pmid, abstract, date) ==
    [pmid |-> pmid, title |-> "title", abstract |-> abstract,
     publication_date |-> date]

\* What the fetch returns: records with an abstract, with or without a PMID
\* (_parse_article leaves pmid None when the element is missing).
FetchedArticles ==
    { Article(p, Some("text"), Some(d)) :
        p \in {None} \cup {Some(x) : x \in PMIDs}, d \in Days }

\* What a caller may hand to upsert_raw_articles.
AnyArticles ==
    FetchedArticles \cup
    { Article(Some(x), Some("blank"), Some(d)) : x \in PMIDs, d \in Days }

SeqsUpTo(S, n) == UNION { [1..k -> S] : k \in 0..n }

\* What a run may meet (see Begin).
RunEnvs == {"ok", "no_genai", "no_key", "get_existing_raises", "upsert_raises",
            "select_raises", "client_raises"}

RateLimited == Exc("ClientError", {"429", "resource_exhausted"})
TimedOut == Exc("ReadTimeout", {})
Good(kind) ==
    Response(IF kind = "en" THEN EnGood ELSE RuGood, "FinishReason.STOP", SomeUsage)
Rejected(kind) ==
    IF kind = "en"
    THEN Response(<<EnTag, Line(NoTag, 250, "punct")>>, "FinishReason.STOP", SomeUsage)
    ELSE Response(<<RuTag, Line(NoTag, 300, "period")>>, "FinishReason.STOP", SomeUsage)

\* The provider, seen from a whole stage invocation: it answers well, or it
\* raises an error that is not a rate limit.
BasicScripts(kind) ==
    { Script(0, Good(kind), Good(kind)), Script(0, TimedOut, TimedOut) }

\* The same, and: it keeps raising a rate-limit error, it keeps answering
\* with a text a validator rejects, or it does so SwitchAt times and then
\* answers well.
RichScripts(kind) ==
    BasicScripts(kind) \cup
    { Script(0, RateLimited, RateLimited),
      Script(0, Rejected(kind), Rejected(kind)),
      Script(SwitchAt, Rejected(kind), Good(kind)),
      Script(SwitchAt, RateLimited, Good(kind)) }

\* The scripts of a menu ("basic" or "rich") for a stage.
Scripts(menu, kind) ==
    IF menu = "basic" THEN BasicScripts(kind) ELSE RichScripts(kind)

\* What a direct caller of mark_summarized passes for the four texts
\* (here: empty strings).
DirectText == <<>>

\* The bot is not running (main.py and summarize_ru.main do not start it).
NoBot == [pc |-> "off"]

-----------------------------------------------------------------------------
(* The operations *)

\* The limits worth telling apart: the limit is used only when the run
\* reaches get_unsummarized_for_pmids with new PMIDs.
LimitsFor(env) ==
    IF env \in {"get_existing_raises", "upsert_raises", "select_raises"}
    THEN {CLI_LIMIT} ELSE {SmallLimit, CLI_LIMIT}

\* The clock readings worth telling apart: the clock is read only when
\* upsert_raw_articles is given articles.
TimesFor(fetched, env) ==
    IF fetched = None \/ env \in {"get_existing_raises", "upsert_raises"}
    THEN {1}
    ELSE IF fetched[1] = <<>> THEN {1} ELSE Times

\* a call of upsert_raw_articles
UpsertRawArticles ==
    /\ run.pc = "idle"
    /\ \E batch \in SeqsUpTo(AnyArticles, MaxDirect), now \in Times :
          /\ articles' = upsert_raw_articles(articles, batch, now).articles
          /\ last' = Step("upsert", "", batch, 0, FALSE, NoItem)
    /\ UNCHANGED <<stage, run, bot>>

\* a call of mark_summarized
MarkSummarized ==
    /\ run.pc = "idle"
    /\ \E pmid \in PMIDs, now \in StampTimes :
          /\ articles' = mark_summarized(articles, pmid, DirectText, DirectText,
                                         DirectText,
                                         make_telegram_html(DirectText, None, DirectText),
                                         now)
          /\ last' = Step("mark", pmid, <<>>, 0, TRUE, NoItem)
    /\ UNCHANGED <<stage, run, bot>>

\* run_pipeline(limit) is called (main.py, summarize_ru.main)
RunPipeline ==
    /\ run.pc = "idle"
    /\ \E fetched \in {None} \cup {Some(b) : b \in SeqsUpTo(FetchedArticles, MaxBatch)},
          env \in RunEnvs :
          \E limit \in LimitsFor(env), now \in TimesFor(fetched, env) :
             Begin("cli", fetched, limit, env, now)
    /\ UNCHANGED <<stage, bot>>

\* the next pending item, the scripts chosen: the store and the clock matter
\* only when the item succeeded
PipelineItemStore(scriptEn, scriptRu, ok) ==
    \E storeRaises \in IF ok THEN BOOLEAN ELSE {FALSE},
       now \in StampTimes :
       Item(scriptEn, scriptRu, storeRaises, now)

\* the next pending item, the Stage A script chosen: the Stage B script
\* matters only when Stage A succeeded
PipelineItemRu(scriptEn, menu, enFailed) ==
    \E scriptRu \in IF enFailed THEN {CHOOSE x \in Scripts(menu, "ru") : TRUE}
                   ELSE Scripts(menu, "ru") :
       PipelineItemStore(scriptEn, scriptRu,
                         summarize_one(run.pending[run.idx + 1],
                                       scriptEn, scriptRu).res # None)

\* the next pending item; the provider follows one of the scripts of the menu
PipelineItem(menu) ==
    /\ run.pc = "items"
    /\ run.idx < Len(run.pending)
    /\ \E scriptEn \in Scripts(menu, "en") :
          PipelineItemRu(scriptEn, menu,
                         summarize_one(run.pending[run.idx + 1], scriptEn,
                                       CHOOSE x \in Scripts(menu, "ru") : TRUE
                                      ).ru.pc = "not_run")
    /\ UNCHANGED <<stage, bot>>

PipelineEnd ==
    /\ run.pc = "items"
    /\ run.idx = Len(run.pending)
    /\ End
    /\ UNCHANGED <<stage, bot>>

\* the caller has the stats (or the exception); the next call can start
PipelineDone ==
    /\ run.pc \in {"returned", "raised"}
    /\ run.caller = "cli"
    /\ run' = Idle
    /\ last' = Step("done", "", <<>>, 0, FALSE, NoItem)
    /\ UNCHANGED <<stage, articles, bot>>

-----------------------------------------------------------------------------
(* Spec: the store operations and run_pipeline, called one after another *)

Init ==
    /\ stage = StageStart("en", "p1", build_en_summary_prompt("abstract"))
    /\ articles = {}
    /\ run = Idle
    /\ last = Step("init", "", <<>>, 0, FALSE, NoItem)
    /\ bot = NoBot

Next ==
    \/ UpsertRawArticles
    \/ MarkSummarized
    \/ RunPipeline
    \/ PipelineItem("basic")
    \/ PipelineEnd
    \/ PipelineDone

Spec == Init /\ [][Next]_vars

-----------------------------------------------------------------------------
(* SpecRun: run_pipeline runs alone, the provider misbehaving in every way *)

RunNext ==
    \/ RunPipeline
    \/ PipelineItem("rich")
    \/ PipelineEnd
    \/ PipelineDone

SpecRun == Init /\ [][RunNext]_vars

-----------------------------------------------------------------------------
(* SpecOne: summarize_one, called with any row *)

Abstracts == {None, Some(""), Some("blank"), Some("tabs"), Some("text")}

OneDates == {None} \cup {Some(d) : d \in 1..MaxTime}

OneRows ==
    { NewRow(Article(Some(x), a, d), 1) :
        x \in PMIDs, a \in Abstracts, d \in OneDates }

\* a call of summarize_one(client, row); the row is kept in articles
SummarizeOne ==
    /\ \E row \in OneRows, scriptEn \in Scripts("rich", "en") :
          \E scriptRu \in Scripts("rich", "ru") :
             /\ articles' = {row}
             /\ last' = Step("one", row.pmid, <<>>,
                             summarize_one(row, scriptEn, scriptRu).en.calls
                                + summarize_one(row, scriptEn, scriptRu).ru.calls,
                             FALSE, summarize_one(row, scriptEn, scriptRu))
    /\ UNCHANGED <<stage, run, bot>>

OneNext == SummarizeOne

SpecOne == Init /\ [][OneNext]_vars

-----------------------------------------------------------------------------
(* SpecStage: one invocation of a stage, attempt by attempt *)

StagePmids == {"p1", "p2"}

StageInit ==
    /\ articles = {}
    /\ run = Idle
    /\ last = Step("init", "", <<>>, 0, FALSE, NoItem)
    /\ bot = NoBot
    /\ stage \in
        { StageStart("en", p, build_en_summary_prompt("abstract")) : p \in StagePmids }
        \cup
        { StageStart("ru", p, build_translate_prompt("title", "summary")) : p \in StagePmids }

\* random.uniform(0, 0.25 * base): the ends of its interval
UniformDraws == {0, 1}

\* What a call of the stage may do, with the draw of the backoff that
\* follows a rate-limit error.
StageOutcomes(kind) ==
    { IF o.kind = "raise" /\ is_resource_exhausted(o) THEN [o EXCEPT !.uniform = u] ELSE o : o \in Outcomes(kind), u \in UniformDraws }

\* a slip: the loop runs once more than MAX_MODEL_RETRIES
StageAttempt_one_more ==
    /\ stage.pc = "loop"
    /\ stage.attempt <= MAX_MODEL_RETRIES
    /\ \E o \in StageOutcomes(stage.kind) : stage' = stage_attempt(stage, o)
    /\ UNCHANGED <<articles, run, last, bot>>

\* for attempt in range(MAX_MODEL_RETRIES): one model call and what follows it
StageAttempt ==
    /\ stage.pc = "loop"
    /\ stage.attempt < MAX_MODEL_RETRIES
    /\ \E o \in StageOutcomes(stage.kind) : stage' = stage_attempt(stage, o)
    /\ UNCHANGED <<articles, run, last, bot>>

\* the loop ends without a return
StageExhausted ==
    /\ stage.pc = "loop"
    /\ stage.attempt = MAX_MODEL_RETRIES
    /\ stage' = after_loop(stage)
    /\ UNCHANGED <<articles, run, last, bot>>

StageNext == StageAttempt \/ StageExhausted

SpecStage == StageInit /\ [][StageNext]_vars

\* The function keeps running until it returns: its sleeps are finite.
SpecStageFair == SpecStage /\ WF_vars(StageNext)

-----------------------------------------------------------------------------
(* SpecText: the text functions of summarize_ru.py applied to drawn inputs *)

MaxLines == 2

EndClasses == {"period", "punct", "dots", "ellipsis", "word"}

\* The lines of a joined value: blank, or five characters with some end.
GuardLines == {[len |-> 0, end |-> "none"]} \cup {[len |-> 5, end |-> e] : e \in EndClasses}

GuardTexts == SeqsUpTo(GuardLines, MaxLines)

MaxParseLines == 5

\* Lines of a response as parse_sections meets them: a blank line, a plain
\* line, "EN_SUMMARY:" alone, "EN_SUMMARY: " with a head, "RU_TITLE: " with
\* a head, and "NOTE: x", a tag no caller asks for.
ParseLines == {Line(NoTag, 0, "none"), Line(NoTag, 5, "word"), Line("EN_SUMMARY", 0, "none"), Line("EN_SUMMARY", 7, "period"), Line("RU_TITLE", 4, "word"), Line("NOTE", 1, "word")}

ParseTexts == SeqsUpTo(ParseLines, MaxParseLines)

ParseKeys == {<<"EN_SUMMARY">>, <<"EN_SUMMARY", "RU_TITLE">>}

MaxAuthors == 10
AUTHORS_SHOWN == 8

AuthorNames == {"Ann", "B&C"}

AuthorLists == SeqsUpTo(AuthorNames, MaxAuthors)

\* html.escape on a name: & becomes &amp;
html_escape(name) == IF name = "B&C" THEN "B&amp;C" ELSE name

\* a slip: the suffix is added from AUTHORS_SHOWN names on
AuthorsLine_from_eight(authors) ==
    [names |-> [i \in 1..Min(Len(authors), AUTHORS_SHOWN) |-> html_escape(authors[i])],
     more |-> IF Len(authors) >= AUTHORS_SHOWN THEN Some(Len(authors) - AUTHORS_SHOWN) ELSE None]

\* The "Авторы: " line of make_telegram_html: the names joined by ", " and
\* the number in the suffix " (+k)", when there is one.
AuthorsLine(authors) ==
    [names |-> [i \in 1..Min(Len(authors), AUTHORS_SHOWN) |-> html_escape(authors[i])],
     more |-> IF Len(authors) > AUTHORS_SHOWN THEN Some(Len(authors) - AUTHORS_SHOWN) ELSE None]

\* One call of a text function and its arguments.
TextCalls ==
    { [pc |-> "call", fn |-> "is_incomplete_text", text |-> t, finish_reason |-> f] : t \in GuardTexts, f \in FinishReasons }
    \cup { [pc |-> "call", fn |-> "parse_sections", text |-> t, keys |-> k] : t \in ParseTexts, k \in ParseKeys }
    \cup { [pc |-> "call", fn |-> "make_telegram_html", authors |-> a] : a \in AuthorLists }

TextInit ==
    /\ articles = {}
    /\ run = Idle
    /\ bot = NoBot
    /\ last = [op |-> "init"]
    /\ stage \in TextCalls

\* is_incomplete_text(text, finish_reason)
IsIncompleteText ==
    /\ stage.pc = "call" /\ stage.fn = "is_incomplete_text"
    /\ last' = [op |-> "is_incomplete_text", text |-> stage.text,
                finish_reason |-> stage.finish_reason,
                result |-> is_incomplete_text(stage.text, stage.finish_reason)]
    /\ stage' = [stage EXCEPT !.pc = "returned"]
    /\ UNCHANGED <<articles, run, bot>>

\* parse_sections(text, keys)
ParseSections ==
    /\ stage.pc = "call" /\ stage.fn = "parse_sections"
    /\ last' = [op |-> "parse_sections", text |-> stage.text, keys |-> stage.keys,
                result |-> parse_sections(stage.text, stage.keys)]
    /\ stage' = [stage EXCEPT !.pc = "returned"]
    /\ UNCHANGED <<articles, run, bot>>

\* make_telegram_html(..., authors, ...): its authors line
MakeTelegramHtml ==
    /\ stage.pc = "call" /\ stage.fn = "make_telegram_html"
    /\ last' = [op |-> "make_telegram_html", authors |-> stage.authors,
                result |-> AuthorsLine(stage.authors)]
    /\ stage' = [stage EXCEPT !.pc = "returned"]
    /\ UNCHANGED <<articles, run, bot>>

TextNext == IsIncompleteText \/ ParseSections \/ MakeTelegramHtml

SpecText == TextInit /\ [][TextNext]_vars

-----------------------------------------------------------------------------
(* The scheduler and the polling loop (telegram_bot.py) and their tables *)

MaxDay == 2
MaxChat == 2
MaxInvocations == 2
MaxStarts == 2
DAILY_LIMIT == 500
BOOTSTRAP_DAYS == 7
BOOTSTRAP_LIMIT == 1000

Chats == 1..MaxChat
Dates == (1 - BOOTSTRAP_DAYS)..MaxDay

\* SELECT 1 FROM fetch_runs WHERE target_date = ?
has_fetch_run(fetch_runs, target_date) ==
    \E r \in fetch_runs : r.target_date = target_date

\* INSERT INTO fetch_runs ... ON CONFLICT(target_date) DO UPDATE
mark_fetch_run(fetch_runs, target_date, mode, fetched_count) ==
    {r \in fetch_runs : r.target_date # target_date}
    \cup {[target_date |-> target_date, mode |-> mode,
           fetched_count |-> fetched_count]}

\* COALESCE(excluded.x, subscribers.x): the first of the two that is not NULL
COALESCE(new, old) == IF new # None THEN new ELSE old

\* INSERT INTO subscribers (chat_id, is_active, created_at, updated_at) ...
\* ON CONFLICT(chat_id) DO UPDATE SET is_active, updated_at
set_subscription(subscribers, chat_id, is_active, now) ==
    IF \E r \in subscribers : r.chat_id = chat_id
    THEN { IF r.chat_id = chat_id
           THEN [r EXCEPT !.is_active = is_active, !.updated_at = now]
           ELSE r : r \in subscribers }
    ELSE subscribers
         \cup {[chat_id |-> chat_id, is_active |-> is_active, username |-> None,
                first_name |-> None, created_at |-> now, updated_at |-> now]}

\* INSERT INTO subscribers (chat_id, is_active, username, first_name, ...) ...
\* ON CONFLICT(chat_id) DO UPDATE SET is_active, username = COALESCE(...),
\* first_name = COALESCE(...), updated_at
upsert_subscriber(subscribers, chat_id, is_active, username, first_name, now) ==
    IF \E r \in subscribers : r.chat_id = chat_id
    THEN { IF r.chat_id = chat_id
           THEN [r EXCEPT !.is_active = is_active,
                          !.username = COALESCE(username, @),
                          !.first_name = COALESCE(first_name, @),
                          !.updated_at = now]
           ELSE r : r \in subscribers }
    ELSE subscribers
         \cup {[chat_id |-> chat_id, is_active |-> is_active,
                username |-> username, first_name |-> first_name,
                created_at |-> now, updated_at |-> now]}

\* SELECT chat_id FROM subscribers WHERE is_active = 1 ORDER BY chat_id ASC
RECURSIVE Ascending(_)
Ascending(S) ==
    IF S = {} THEN <<>>
    ELSE LET m == CHOOSE x \in S : \A y \in S : x <= y
         IN <<m>> \o Ascending(S \ {m})

get_active_subscribers(subscribers) ==
    Ascending({r.chat_id : r \in {x \in subscribers : x.is_active}})

\* SELECT 1 FROM delivery_log WHERE chat_id = ? AND target_date = ?
was_delivered(delivery_log, chat_id, target_date) ==
    \E r \in delivery_log : r.chat_id = chat_id /\ r.target_date = target_date

\* INSERT INTO delivery_log ... ON CONFLICT(chat_id, target_date) DO UPDATE
mark_delivery(delivery_log, chat_id, target_date, article_count) ==
    {r \in delivery_log : ~(r.chat_id = chat_id /\ r.target_date = target_date)}
    \cup {[chat_id |-> chat_id, target_date |-> target_date,
           article_count |-> article_count]}

\* SELECT * FROM articles WHERE summarized_at IS NOT NULL AND <date> = ?
get_summarized_by_date(arts, target_date) ==
    {r \in arts : r.summarized_at # None /\ r.publication_date = Some(target_date)}

\* _target_yesterday(): the day before the day the clock shows
_target_yesterday(clock) == clock.day - 1

\* The settings BOT_DAILY_HOUR and BOT_DAILY_MINUTE of the process
BOT_DAILY_HOUR == 9
BOT_DAILY_MINUTE == 30

Max(a, b) == IF a > b THEN a ELSE b

\* _daily_hour_minute(): the settings, clamped to a time of day
_daily_hour_minute ==
    <<Min(Max(BOT_DAILY_HOUR, 0), 23), Min(Max(BOT_DAILY_MINUTE, 0), 59)>>

\* a slip: both components are compared, each on its own
TupleLess_pointwise(a, b) == a[1] < b[1] /\ a[2] < b[2]

\* (a1, a2) < (b1, b2) of Python: the order of tuples is lexicographic
TupleLess(a, b) == a[1] < b[1] \/ (a[1] = b[1] /\ a[2] < b[2])

\* The readings (hour, minute) of the wall clock in a day that the model
\* tells apart: one before the threshold, one at the threshold.
DayReadings == << <<8, 45>>, <<9, 30>> >>

\* (now.hour, now.minute) < (hour, minute) in _maybe_run_scheduled_jobs
BeforeThreshold(clock) == TupleLess(clock.hm, _daily_hour_minute)

\* The messages of a digest of n articles, in the order of the calls of
\* send_message: the notice that the date has no article, or the header and
\* one message for each article.
DigestMessages(n) ==
    IF n = 0 THEN <<"notice">> ELSE <<"header">> \o [i \in 1..n |-> "article"]

\* a slip: a send that raises is passed over, the count is that of the list
_send_daily_digest_swallow(arts, chat_id, target_date, failAt) ==
    LET n == Cardinality(get_summarized_by_date(arts, target_date))
    IN IF failAt = 0 \/ failAt > Len(DigestMessages(n))
       THEN [msgs |-> DigestMessages(n), sent_count |-> n, raised |-> FALSE]
       ELSE [msgs |-> SubSeq(DigestMessages(n), 1, failAt - 1),
             sent_count |-> n, raised |-> FALSE]

\* _send_daily_digest(api, chat_id, target_date).  failAt is the number of
\* the send_message call to this chat that raises (0: none does).  The
\* result: the messages that went out, the count returned, whether it raised.
_send_daily_digest(arts, chat_id, target_date, failAt) ==
    LET n == Cardinality(get_summarized_by_date(arts, target_date))
    IN IF failAt = 0 \/ failAt > Len(DigestMessages(n))
       THEN [msgs |-> DigestMessages(n), sent_count |-> n, raised |-> FALSE]
       ELSE [msgs |-> SubSeq(DigestMessages(n), 1, failAt - 1),
             sent_count |-> 0, raised |-> TRUE]

\* The loop of _run_daily_send_if_needed over the active subscribers; acc is
\* [delivery_log, got: chat -> number of messages sent to it, msgs: chat ->
\* the messages sent to it, raised].
RECURSIVE DeliverTo(_, _, _, _, _)
DeliverTo(chats, arts, target, failAt, acc) ==
    IF chats = <<>> THEN acc
    ELSE LET chat_id == Head(chats)
         IN IF was_delivered(acc.delivery_log, chat_id, target)
            THEN DeliverTo(Tail(chats), arts, target, failAt, acc)
            ELSE LET d == _send_daily_digest(arts, chat_id, target, failAt[chat_id])
                     got == [acc.got EXCEPT ![chat_id] = @ + Len(d.msgs)]
                     msgs == [acc.msgs EXCEPT ![chat_id] = @ \o d.msgs]
                 IN IF d.raised
                    THEN [acc EXCEPT !.got = got, !.msgs = msgs, !.raised = TRUE]
                    ELSE DeliverTo(Tail(chats), arts, target, failAt,
                                   [acc EXCEPT !.got = got, !.msgs = msgs,
                                               !.delivery_log =
                                                   mark_delivery(@, chat_id, target,
                                                                 d.sent_count)])

_run_daily_send_if_needed(subscribers, delivery_log, arts, target, failAt) ==
    DeliverTo(get_active_subscribers(subscribers), arts, target, failAt,
              [delivery_log |-> delivery_log, got |-> [c \in Chats |-> 0],
               msgs |-> [c \in Chats |-> <<>>], raised |-> FALSE])

\* The record of a delivery step, for the properties: its target date, the
\* subscribers and the log it found, the number of summarized articles of
\* the date, the messages each chat was sent.
NoPass ==
    [ran |-> FALSE, target |-> 0, subscribers |-> {}, before |-> {},
     n |-> 0, got |-> [c \in Chats |-> 0], msgs |-> [c \in Chats |-> <<>>],
     raised |-> FALSE]

\* The record of a daily fetch step, for the properties: its target date,
\* whether a fetch-run record existed, whether it invoked run_pipeline.
NoFetch == [ran |-> FALSE, target |-> 0, had_run |-> FALSE, invoked |-> FALSE]

\* _date_range_last_days(days_back): the dates the fetch asks PubMed for
_date_range_last_days(days_back, clock) ==
    [min_day |-> clock.day - days_back, max_day |-> clock.day - 1]

\* for i in range(1, 8): mark_fetch_run(today - i days, "bootstrap7", ...)
RECURSIVE MarkBootstrap(_, _, _, _)
MarkBootstrap(fetch_runs, today, i, fetched_count) ==
    IF i > BOOTSTRAP_DAYS THEN fetch_runs
    ELSE MarkBootstrap(mark_fetch_run(fetch_runs, today - i, "bootstrap7",
                                      fetched_count),
                       today, i + 1, fetched_count)

\* The record of the bootstrap, for the properties: how many times its
\* run_pipeline was invoked, the date range the last one fetched, and the
\* dates that were given a marker.
NoBoot == [invoked |-> 0, range |-> None, marked |-> {}]

\* The first start of the process, on an empty database, before the daily
\* threshold of day 1: run_bot is about to call _run_bootstrap_if_needed.
BotStart ==
    [pc |-> "start", clock |-> [day |-> 1, hm |-> DayReadings[1]], target |-> 0,
     fetch_runs |-> {}, subscribers |-> {}, delivery_log |-> {},
     backfill_done |-> FALSE, starts |-> 1, boot |-> NoBoot,
     invocations |-> [d \in Dates |-> 0], fetch |-> NoFetch, pass |-> NoPass]

\* What the daily fetch brings: nothing new, one article of day 1, or an
\* error of the fetch.
DailyFetched ==
    {None, Some(<<>>)} \cup
    {Some(<<Article(Some(x), Some("text"), Some(1))>>) : x \in PMIDs}

DailyEnvs == {"ok", "no_key", "client_raises"}

\* The wall clock goes on to its next reading, or over midnight.
Tick ==
    /\ bot.pc # "off"
    /\ \/ \E i \in 1..(Len(DayReadings) - 1) :
             /\ bot.clock.hm = DayReadings[i]
             /\ bot' = [bot EXCEPT !.clock.hm = DayReadings[i + 1]]
       \/ /\ bot.clock.hm = DayReadings[Len(DayReadings)]
          /\ bot.clock.day < MaxDay
          /\ bot' = [bot EXCEPT !.clock = [day |-> @.day + 1,
                                           hm |-> DayReadings[1]]]
    /\ UNCHANGED <<stage, articles, run, last>>

\* _run_bootstrap_if_needed finds the flag set
BootstrapSkip ==
    /\ bot.pc = "start"
    /\ bot.backfill_done
    /\ bot' = [bot EXCEPT !.pc = "jobs"]
    /\ UNCHANGED <<stage, articles, run, last>>

\* _run_bootstrap_if_needed finds no flag and calls run_pipeline(7, 1000)
BootstrapRun ==
    /\ bot.pc = "start"
    /\ ~bot.backfill_done
    /\ bot' = [bot EXCEPT !.pc = "boot",
                          !.boot = [invoked |-> @.invoked + 1,
                                    range |-> Some(_date_range_last_days(
                                                      BOOTSTRAP_DAYS, bot.clock)),
                                    marked |-> @.marked]]
    /\ \E fetched \in DailyFetched, env \in DailyEnvs :
          Begin("bootstrap", fetched, BOOTSTRAP_LIMIT, env, 1)
    /\ UNCHANGED stage

\* run_pipeline has returned its stats: the seven markers, then the flag
BootstrapMark ==
    /\ bot.pc = "boot"
    /\ run.pc = "returned"
    /\ bot' = [bot EXCEPT !.pc = "jobs",
                          !.fetch_runs = MarkBootstrap(@, bot.clock.day, 1,
                                                       run.stats[1].fetched),
                          !.backfill_done = TRUE,
                          !.boot.marked =
                              {bot.clock.day - i : i \in 1..BOOTSTRAP_DAYS}]
    /\ run' = Idle
    /\ last' = Step("done", "", <<>>, 0, FALSE, NoItem)
    /\ UNCHANGED <<stage, articles>>

\* run_pipeline has raised: nothing in run_bot catches it, the process ends
BootstrapRaised ==
    /\ bot.pc = "boot"
    /\ run.pc = "raised"
    /\ bot' = [bot EXCEPT !.pc = "down"]
    /\ run' = Idle
    /\ last' = Step("done", "", <<>>, 0, FALSE, NoItem)
    /\ UNCHANGED <<stage, articles>>

\* the process is stopped while it waits in get_updates
Stop ==
    /\ bot.pc = "poll"
    /\ bot.starts < MaxStarts
    /\ bot' = [bot EXCEPT !.pc = "down"]
    /\ UNCHANGED <<stage, articles, run, last>>

\* the process is started again; the database is as it was left
Restart ==
    /\ bot.pc = "down"
    /\ bot.starts < MaxStarts
    /\ bot' = [bot EXCEPT !.pc = "start", !.starts = @ + 1]
    /\ UNCHANGED <<stage, articles, run, last>>

\* _maybe_run_scheduled_jobs before the threshold: nothing to do
JobsNotYet ==
    /\ bot.pc = "jobs"
    /\ BeforeThreshold(bot.clock)
    /\ bot' = [bot EXCEPT !.pc = "poll"]
    /\ UNCHANGED <<stage, articles, run, last>>

\* _run_daily_fetch_if_needed finds the fetch-run record of its target
DailyFetchSkip ==
    /\ bot.pc = "jobs"
    /\ ~BeforeThreshold(bot.clock)
    /\ has_fetch_run(bot.fetch_runs, _target_yesterday(bot.clock))
    /\ bot' = [bot EXCEPT !.pc = "send",
                          !.fetch = [ran |-> TRUE,
                                     target |-> _target_yesterday(bot.clock),
                                     had_run |-> TRUE, invoked |-> FALSE]]
    /\ UNCHANGED <<stage, articles, run, last>>

\* _run_daily_fetch_if_needed finds none and calls run_pipeline
DailyFetchRun ==
    /\ bot.pc = "jobs"
    /\ ~BeforeThreshold(bot.clock)
    /\ LET target == _target_yesterday(bot.clock)
       IN /\ ~has_fetch_run(bot.fetch_runs, target)
          /\ bot.invocations[target] < MaxInvocations
          /\ bot' = [bot EXCEPT !.pc = "pipeline", !.target = target,
                                !.invocations[target] = @ + 1,
                                !.fetch = [ran |-> TRUE, target |-> target,
                                           had_run |-> FALSE, invoked |-> TRUE]]
          /\ \E fetched \in DailyFetched, env \in DailyEnvs :
                Begin("daily", fetched, DAILY_LIMIT, env, 1)
    /\ UNCHANGED stage

\* a slip: the run is recorded only when it ingested something
DailyFetchMark_only_if_fetched ==
    /\ bot.pc = "pipeline"
    /\ run.pc = "returned"
    /\ bot' = [bot EXCEPT !.pc = "send",
                          !.fetch_runs = IF run.stats[1].fetched > 0
                                         THEN mark_fetch_run(@, bot.target, "daily1",
                                                             run.stats[1].fetched)
                                         ELSE @]
    /\ run' = Idle
    /\ last' = Step("done", "", <<>>, 0, FALSE, NoItem)
    /\ UNCHANGED <<stage, articles>>

\* run_pipeline has returned its stats: mark_fetch_run(target, ...)
DailyFetchMark ==
    /\ bot.pc = "pipeline"
    /\ run.pc = "returned"
    /\ bot' = [bot EXCEPT !.pc = "send",
                          !.fetch_runs = mark_fetch_run(@, bot.target, "daily1",
                                                        run.stats[1].fetched)]
    /\ run' = Idle
    /\ last' = Step("done", "", <<>>, 0, FALSE, NoItem)
    /\ UNCHANGED <<stage, articles>>

\* run_pipeline has raised: the except clause of the loop of run_bot
DailyFetchRaised ==
    /\ bot.pc = "pipeline"
    /\ run.pc = "raised"
    /\ bot' = [bot EXCEPT !.pc = "jobs"]
    /\ run' = Idle
    /\ last' = Step("done", "", <<>>, 0, FALSE, NoItem)
    /\ UNCHANGED <<stage, articles>>

\* _run_daily_send_if_needed(api); a send that raises ends the iteration of
\* the loop of run_bot
DailySend ==
    /\ bot.pc = "send"
    /\ \E failAt \in [Chats -> 0..2] :
          LET target == _target_yesterday(bot.clock)
              res == _run_daily_send_if_needed(bot.subscribers, bot.delivery_log,
                                               articles, target, failAt)
          IN bot' = [bot EXCEPT !.pc = IF res.raised THEN "jobs" ELSE "poll",
                                !.delivery_log = res.delivery_log,
                                !.pass = [ran |-> TRUE, target |-> target,
                                          subscribers |-> bot.subscribers,
                                          before |-> bot.delivery_log,
                                          n |-> Cardinality(
                                                   get_summarized_by_date(articles,
                                                                          target)),
                                          got |-> res.got,
                                          msgs |-> res.msgs,
                                          raised |-> res.raised]]
    /\ UNCHANGED <<stage, articles, run, last>>

\* get_updates and the handlers of the updates it returned: no update, or
\* /start, /subscribe, /unsubscribe from a chat (of a user without a
\* username; the time stamps of the rows are left out here).  The records of the fetch
\* step and of the delivery step are those of one iteration of the loop.
Poll ==
    /\ bot.pc = "poll"
    /\ \/ bot' = [bot EXCEPT !.pc = "jobs", !.fetch = NoFetch, !.pass = NoPass]
       \/ \E chat_id \in Chats :
             bot' = [bot EXCEPT !.pc = "jobs", !.fetch = NoFetch, !.pass = NoPass,
                                !.subscribers = upsert_subscriber(@, chat_id, TRUE,
                                                                  None, None, 0)]
       \/ \E chat_id \in Chats, is_active \in BOOLEAN :
             bot' = [bot EXCEPT !.pc = "jobs", !.fetch = NoFetch, !.pass = NoPass,
                                !.subscribers = set_subscription(@, chat_id,
                                                                 is_active, 0)]
    /\ UNCHANGED <<stage, articles, run, last>>

BotInit ==
    /\ stage = StageStart("en", "p1", build_en_summary_prompt("abstract"))
    /\ articles = {}
    /\ run = Idle
    /\ last = Step("init", "", <<>>, 0, FALSE, NoItem)
    /\ bot = BotStart

BotNext ==
    \/ Tick
    \/ BootstrapSkip
    \/ BootstrapRun
    \/ BootstrapMark
    \/ BootstrapRaised
    \/ Stop
    \/ Restart
    \/ JobsNotYet
    \/ DailyFetchSkip
    \/ DailyFetchRun
    \/ PipelineItem("basic")
    \/ PipelineEnd
    \/ DailyFetchMark
    \/ DailyFetchRaised
    \/ DailySend
    \/ Poll

SpecBot == BotInit /\ [][BotNext]_vars

-----------------------------------------------------------------------------
(* SpecLoop: the loop of run_bot on one day, once the daily threshold has
   passed and the fetch of the target date is recorded, some chats having
   blocked the bot *)

MaxFaults == 1

LoopTarget == 0

\* The store of that day: no summarized article of the target date, or one.
LoopStores ==
    { {},
      mark_summarized({NewRow(Article(Some("p1"), Some("text"), Some(LoopTarget)), 1)},
                      "p1", DirectText, DirectText, DirectText,
                      make_telegram_html(DirectText, None, DirectText), 1) }

LoopRow(chat_id, is_active) ==
    [chat_id |-> chat_id, is_active |-> is_active, username |-> None,
     first_name |-> None, created_at |-> 0, updated_at |-> 0]

LoopSubscribers ==
    { {LoopRow(c, f[c]) : c \in S} : S \in SUBSET Chats, f \in [Chats -> BOOLEAN] }

\* blocked: the chats every send_message to which raises (TelegramAPI._post
\* raises on the 403 of a user who blocked the bot); faults: the sends to
\* other chats that may still fail; sent: the messages each chat was sent in
\* all the passes; iteration: the parity of the number of iterations begun.
LoopInit ==
    /\ stage = [pc |-> "off"]
    /\ run = Idle
    /\ last = [op |-> "init"]
    /\ articles \in LoopStores
    /\ \E subs \in LoopSubscribers, blocked \in SUBSET Chats, faults \in 0..MaxFaults :
          bot = [pc |-> "jobs", target |-> LoopTarget, subscribers |-> subs,
                 delivery_log |-> {}, blocked |-> blocked, faults |-> faults,
                 sent |-> [c \in Chats |-> <<>>], iteration |-> 0]

\* Which send_message call to each chat raises in one pass: the first one
\* to a blocked chat, and at most one call to another chat while faults
\* are left.
LoopFailures ==
    { f \in [Chats -> 0..2] :
         /\ \A c \in bot.blocked : f[c] = 1
         /\ \A c \in Chats \ bot.blocked : f[c] # 0 => bot.faults > 0
         /\ Cardinality({c \in Chats \ bot.blocked : f[c] # 0}) <= 1 }

\* One iteration of the loop up to get_updates: _maybe_run_scheduled_jobs
\* finds the fetch-run record and runs the delivery step; an exception of
\* a send leaves the try block, the loop sleeps and starts its next
\* iteration without having called get_updates.
LoopJobs ==
    /\ bot.pc = "jobs"
    /\ \E failAt \in LoopFailures :
          LET res == _run_daily_send_if_needed(bot.subscribers, bot.delivery_log,
                                               articles, bot.target, failAt)
          IN bot' = [bot EXCEPT !.pc = IF res.raised THEN "jobs" ELSE "poll",
                                !.iteration = 1 - @,
                                !.delivery_log = res.delivery_log,
                                !.faults = IF \E c \in Chats \ bot.blocked : failAt[c] # 0
                                           THEN @ - 1 ELSE @,
                                !.sent = [c \in Chats |-> @[c] \o res.msgs[c]]]
    /\ UNCHANGED <<stage, articles, run, last>>

\* get_updates and the handlers: no update, or a chat subscribes or
\* unsubscribes.
LoopPoll ==
    /\ bot.pc = "poll"
    /\ \/ bot' = [bot EXCEPT !.pc = "jobs"]
       \/ \E chat_id \in Chats, is_active \in BOOLEAN :
             bot' = [bot EXCEPT !.pc = "jobs",
                                !.subscribers = set_subscription(@, chat_id, is_active, 0)]
    /\ UNCHANGED <<stage, articles, run, last>>

LoopNext == LoopJobs \/ LoopPoll

\* The loop keeps iterating.
SpecLoop == LoopInit /\ [][LoopNext]_vars /\ WF_vars(LoopNext)

-----------------------------------------------------------------------------
(* SpecSubs: the subscribers table under /start and subscribe/unsubscribe *)

\* The username and the first name of the user of an update: absent, empty,
\* or a name.
Usernames == {None, Some(""), Some("ann"), Some("bob")}
FirstNames == {None, Some(""), Some("Ann")}

\* The record of the last operation on the table, for the properties.
NoOp == [kind |-> "none", chat_id |-> 0, is_active |-> FALSE,
         username |-> None, first_name |-> None]

SubsInit ==
    /\ stage = StageStart("en", "p1", build_en_summary_prompt("abstract"))
    /\ articles = {}
    /\ run = Idle
    /\ last = Step("init", "", <<>>, 0, FALSE, NoItem)
    /\ bot = [pc |-> "off", subscribers |-> {}, now |-> 0, op |-> NoOp]

\* _handle_start: upsert_subscriber(chat_id, True, username, first_name)
HandleStart ==
    /\ bot.pc = "off"
    /\ bot.now < MaxTime
    /\ \E chat_id \in Chats, username \in Usernames, first_name \in FirstNames :
          bot' = [bot EXCEPT !.now = @ + 1,
                             !.subscribers = upsert_subscriber(@, chat_id, TRUE,
                                                               username, first_name,
                                                               bot.now + 1),
                             !.op = [kind |-> "upsert_subscriber",
                                     chat_id |-> chat_id, is_active |-> TRUE,
                                     username |-> username,
                                     first_name |-> first_name]]
    /\ UNCHANGED <<stage, articles, run, last>>

\* the subscribe and unsubscribe handlers: set_subscription(chat_id, flag)
SetSubscription ==
    /\ bot.pc = "off"
    /\ bot.now < MaxTime
    /\ \E chat_id \in Chats, is_active \in BOOLEAN :
          bot' = [bot EXCEPT !.now = @ + 1,
                             !.subscribers = set_subscription(@, chat_id, is_active,
                                                              bot.now + 1),
                             !.op = [kind |-> "set_subscription",
                                     chat_id |-> chat_id, is_active |-> is_active,
                                     username |-> None, first_name |-> None]]
    /\ UNCHANGED <<stage, articles, run, last>>

SubsNext ==
    \/ HandleStart
    \/ SetSubscription

SpecSubs == SubsInit /\ [][SubsNext]_vars

-----------------------------------------------------------------------------
(* Properties *)

SummarizationFields(r) ==
    <<r.title_ru, r.summary_en, r.summary_ru, r.tg_message_html, r.summarized_at>>

SetCount(r) ==
    Cardinality({i \in 1..5 : SummarizationFields(r)[i] # None})

RowsOf(arts, pmid) == {r \in arts : r.pmid = pmid}

\* C1: in every reachable state of the store, each article row has none or
\* all of title_ru, summary_en, summary_ru, tg_message_html and summarized_at
\* set.
C1_AllOrNothing == \A r \in articles : SetCount(r) \in {0, 5}

\* a run has just written the summarization columns of an article, and
\* another article is still without them
C1_Witness ==
    /\ last.op = "item" /\ last.marked
    /\ \E r \in articles : r.pmid = last.pmid /\ SetCount(r) = 5
    /\ \E r \in articles : SetCount(r) = 0

\* C2: a step that ingests a batch (upsert_raw_articles called directly, or
\* the ingest step of run_pipeline) leaves, for every article of the batch
\* that already has a row, the summarization fields of that row as they were
\* and exactly one row for its identifier.
C2_ReingestKeepsSummary ==
    [][ last'.op \in {"upsert", "begin"} =>
           \A p \in last'.pmids : \A r \in RowsOf(articles, p) :
              /\ Cardinality(RowsOf(articles', p)) = 1
              /\ \A r2 \in RowsOf(articles', p) :
                    SummarizationFields(r2) = SummarizationFields(r) ]_vars

\* upsert_raw_articles has just been given an article that was summarized
C2_Witness ==
    /\ last.op = "upsert"
    /\ \E r \in articles : r.pmid \in last.pmids /\ r.summarized_at # None

\* C3: once the summarization timestamp of an article is set, no later step
\* of a run_pipeline run selects it as pending, issues a model call for it or
\* changes its summarization fields.
C3_SummarizedOnce ==
    [][ /\ (last'.op = "begin" /\ run'.pc \in {"items", "returned"}) =>
              \A i \in 1..Len(run'.pending) :
                 \A r \in RowsOf(articles, run'.pending[i].pmid) :
                    r.summarized_at = None
        /\ (last'.op = "item" /\ (last'.calls > 0 \/ last'.marked)) =>
              \A r \in RowsOf(articles, last'.pmid) : r.summarized_at = None
        /\ last'.op \in {"begin", "item", "end", "done"} =>
              \A r \in articles : r.summarized_at # None =>
                 \E r2 \in articles' :
                    /\ r2.pmid = r.pmid
                    /\ SummarizationFields(r2) = SummarizationFields(r) ]_vars

\* a run has just begun whose batch holds an article that is summarized
C3_Witness ==
    /\ last.op = "begin"
    /\ run.pc \in {"items", "returned"}
    /\ \E r \in articles : r.pmid \in last.pmids /\ r.summarized_at # None

\* C4: for every target date the daily fetch step has invoked run_pipeline
\* at most once, however often the scheduled-jobs check ran at or after the
\* threshold; a fetch step that found the fetch-run record of its target
\* invoked nothing.
C4_PipelineOncePerDate ==
    /\ \A d \in Dates : bot.invocations[d] <= 1
    /\ (bot.fetch.ran /\ bot.fetch.had_run) => ~bot.fetch.invoked

Eligible(pass) ==
    {c \in Chats :
        /\ \E r \in pass.subscribers : r.chat_id = c /\ r.is_active
        /\ ~was_delivered(pass.before, c, pass.target)}

\* C5: a run of the delivery step has sent messages to exactly the
\* subscribers that were active and had no delivery record for the target
\* date, and has written exactly one new delivery record for each of them;
\* the records that existed are unchanged.
C5_DeliversToEachEligible ==
    bot.pass.ran =>
        /\ {c \in Chats : bot.pass.got[c] > 0} = Eligible(bot.pass)
        /\ bot.pass.before \subseteq bot.delivery_log
        /\ {r.chat_id : r \in bot.delivery_log \ bot.pass.before} = Eligible(bot.pass)
        /\ \A r \in bot.delivery_log \ bot.pass.before :
              r.target_date = bot.pass.target
        /\ Cardinality(bot.delivery_log \ bot.pass.before)
              = Cardinality(Eligible(bot.pass))

\* C11: for every row whose abstract is absent, empty or whitespace-only,
\* summarize_one has returned no result, the reason "missing_abstract" and
\* zero token counters, and neither stage was invoked (no model call).
C11_MissingAbstract ==
    (last.op = "one" /\ \E r \in articles :
                           \/ r.abstract_en = None
                           \/ r.abstract_en \in {Some(""), Some("blank"), Some("tabs")}) =>
        /\ last.one.res = None
        /\ last.one.reason = Some(<<"missing_abstract", "">>)
        /\ last.one.tokens = [input |-> 0, output |-> 0, total |-> 0]
        /\ last.calls = 0
        /\ last.one.en.pc = "not_run" /\ last.one.ru.pc = "not_run"

\* summarize_one was given a row whose abstract is whitespace with a tab
C11_Witness ==
    /\ last.op = "one"
    /\ \E r \in articles : r.abstract_en = Some("tabs")
    /\ last.one.reason = Some(<<"missing_abstract", "">>)

EnReasonTags == {"en_exception", "en_incomplete", "en_failed"}

RuReasonTags == {"ru_exception", "ru_incomplete", "ru_failed"}

\* C12: in every iteration of the loop over pending, Stage B is called only
\* when Stage A has returned a summary for that item; when a stage fails the
\* item is counted as failed under a reason of that stage (en_* for Stage A
\* with Stage B not called, ru_* for Stage B), and the store is left as it was.
C12_StageBAfterStageA ==
    [][(run.pc = "items" /\ last'.op = "item") =>
          /\ last'.one.en.calls > 0
          /\ last'.one.ru.calls > 0 => last'.one.en.payload # None
          /\ last'.one.en.payload = None =>
                /\ last'.one.ru.calls = 0
                /\ last'.one.res = None
                /\ last'.one.reason # None
                /\ last'.one.reason[1][1] \in EnReasonTags
          /\ (last'.one.en.payload # None /\ last'.one.ru.payload = None) =>
                /\ last'.one.ru.calls > 0
                /\ last'.one.res = None
                /\ last'.one.reason # None
                /\ last'.one.reason[1][1] \in RuReasonTags
          /\ last'.one.res = None =>
                /\ articles' = articles
                /\ ~last'.marked
                /\ run'.failed = run.failed + 1 /\ run'.ok = run.ok
                /\ run'.fail_reasons =
                       CountReason(run.fail_reasons, last'.one.reason[1])
    ]_vars

\* an item whose Stage A succeeded and whose Stage B failed has been counted
C12_Witness ==
    /\ last.op = "item"
    /\ last.one.en.payload # None /\ last.one.ru.calls > 0
    /\ last.one.ru.payload = None
    /\ run.pc = "items" /\ run.failed > 0
    /\ \E k \in DOMAIN run.fail_reasons : k[1] \in RuReasonTags

\* C13: when run_pipeline has found pending items and the google-genai
\* package or GEMINI_API_KEY is missing, it has returned without a model call
\* and without marking an article: summarized 0, failed = pending, zero
\* token totals, and fail_reasons with one reason whose count is pending.
C13_NoClientShortCircuit ==
    (/\ run.pc = "returned" /\ last.op = "begin"
     /\ run.pending # <<>>) =>
        /\ run.calls = 0
        /\ \A i \in 1..Len(run.pending) :
              \E r \in articles : r.pmid = run.pending[i].pmid /\ r.summarized_at = None
        /\ run.stats[1].pending = Len(run.pending)
        /\ run.stats[1].summarized = 0
        /\ run.stats[1].failed = Len(run.pending)
        /\ run.stats[1].tokens_input = 0
        /\ run.stats[1].tokens_output = 0
        /\ run.stats[1].tokens_total = 0
        /\ Cardinality(DOMAIN run.stats[1].fail_reasons) = 1
        /\ \A k \in DOMAIN run.stats[1].fail_reasons :
              /\ run.stats[1].fail_reasons[k] = Len(run.pending)
              /\ k \in {<<"missing_google_genai", "">>, <<"missing_gemini_api_key", "">>}

\* run_pipeline has returned before the loop with two pending items
C13_Witness ==
    /\ run.pc = "returned" /\ last.op = "begin"
    /\ Len(run.pending) = 2
    /\ run.stats[1].failed = 2

\* C14: when the fetch raises, run_pipeline returns (the exception does not
\* leave it), the store is as it was, no model call is made, and the stats
\* say fetched 0, pending 0, summarized 0, failed 0.
C14_FetchFailureIsEmptyRun ==
    [][(/\ run.pc = "idle" /\ last'.op = "begin"
        /\ last'.raised = "fetch_top_journal_articles_last_days") =>
          /\ run'.pc = "returned"
          /\ articles' = articles
          /\ run'.calls = 0
          /\ run'.stats # None
          /\ run'.stats[1].fetched = 0
          /\ run'.stats[1].pending = 0
          /\ run'.stats[1].summarized = 0
          /\ run'.stats[1].failed = 0
    ]_vars

\* run_pipeline has returned after a fetch that raised, articles in the store
C14_Witness ==
    /\ last.op = "begin"
    /\ last.raised = "fetch_top_journal_articles_last_days"
    /\ run.pc = "returned"
    /\ \E r \in articles : r.summarized_at = None /\ HasAbstract(r)

\* C15: every invocation of run_pipeline returns a stats record; no
\* exception leaves it, whichever stage fails.
C15_AlwaysReturnsStats ==
    /\ run.pc # "raised"
    /\ run.pc = "returned" => run.stats # None

\* C16: when the run_pipeline invoked by the daily fetch returns, the step
\* that follows leaves a fetch-run record for the target date, whatever the
\* counts of the stats; a date that has a record keeps it, and run_pipeline
\* is not invoked for it again.
C16_ReturnedRunIsRecorded ==
    [][ /\ (bot.pc = "pipeline" /\ run.pc = "returned" /\ bot'.pc # "pipeline") =>
              /\ has_fetch_run(bot'.fetch_runs, bot.target)
              /\ bot.fetch.invoked /\ bot.fetch.target = bot.target
        /\ \A d \in Dates :
              has_fetch_run(bot.fetch_runs, d) =>
                 /\ has_fetch_run(bot'.fetch_runs, d)
                 /\ bot'.invocations[d] = bot.invocations[d]
    ]_vars

\* a run that ingested nothing and failed on nothing has been recorded, and
\* the scheduled check has been evaluated again since
C16_Witness ==
    /\ \E r \in bot.fetch_runs :
          r.target_date = _target_yesterday(bot.clock) /\ r.fetched_count = 0
    /\ bot.fetch.ran /\ bot.fetch.had_run /\ ~bot.fetch.invoked
    /\ bot.invocations[_target_yesterday(bot.clock)] = 1

\* C17: an evaluation of the scheduled-jobs check while (hour, minute) is
\* strictly below the threshold does nothing: no run_pipeline, no message, no
\* fetch-run or delivery record.  At or after the threshold it runs the fetch
\* step first; the delivery step runs only after the fetch step, and is what
\* follows when the fetch step has returned.
C17_GateThenFetchThenSend ==
    [][ /\ (/\ bot.pc = "jobs" /\ bot'.clock = bot.clock /\ bot' # bot
            /\ \/ bot.clock.hm[1] < 9
               \/ bot.clock.hm[1] = 9 /\ bot.clock.hm[2] < 30) =>
              /\ bot' = [bot EXCEPT !.pc = "poll"]
              /\ run' = run /\ articles' = articles
        /\ (/\ bot.pc = "jobs" /\ bot'.clock = bot.clock /\ bot' # bot
            /\ ~ \/ bot.clock.hm[1] < 9
                 \/ bot.clock.hm[1] = 9 /\ bot.clock.hm[2] < 30) =>
              /\ bot'.fetch.ran
              /\ bot'.fetch.target = _target_yesterday(bot.clock)
              /\ bot'.fetch.invoked = (run'.pc # "idle")
              /\ bot'.pc \in {"pipeline", "send"}
              /\ bot'.delivery_log = bot.delivery_log /\ bot'.pass = bot.pass
        /\ (bot.pc = "pipeline" /\ run.pc = "returned" /\ bot'.pc # "pipeline") =>
              bot'.pc = "send"
        /\ (\/ bot'.pass.ran /\ bot'.pass # bot.pass
            \/ bot'.delivery_log # bot.delivery_log) =>
              bot.pc = "send"
        /\ (bot.pc = "send" /\ bot'.pc # "send") =>
              /\ bot'.pass.ran
              /\ bot'.pass.target = _target_yesterday(bot.clock)
              /\ bot'.pass.before = bot.delivery_log
    ]_vars

\* the check was evaluated before the threshold, at 8:45, and did nothing
C17_Witness ==
    /\ bot.pc = "poll" /\ bot.clock.hm = <<8, 45>>
    /\ ~bot.fetch.ran /\ ~bot.pass.ran

\* C18: over all the starts of the process, the run_pipeline of the 7-day
\* bootstrap has been invoked at most once.
C18_BootstrapAtMostOnce ==
    bot.boot.invoked <= 1

\* C19: once the bootstrap has completed the flag is set, each of the seven
\* dates from yesterday back to seven days ago has a fetch-run record, and
\* every date that was given a marker lies in the date range that the
\* run_pipeline of the bootstrap fetched.
C19_BootstrapMarkers ==
    (bot.boot.marked # {}) =>
        /\ bot.backfill_done
        /\ Cardinality(bot.boot.marked) = 7
        /\ \A d \in bot.boot.marked : has_fetch_run(bot.fetch_runs, d)
        /\ \A d \in bot.boot.marked :
              /\ bot.boot.range[1].min_day <= d
              /\ d <= bot.boot.range[1].max_day

\* The delivery records that the last run of the delivery step wrote.
NewDeliveries == bot.delivery_log \ bot.pass.before

C21_NoArticlesNoMessage ==
    (bot.pass.ran /\ bot.pass.n = 0) =>
        \A c \in Chats : bot.pass.msgs[c] = <<>>

\* The value of a display field after a registration that supplied new,
\* as the claim has it: new when it is not empty, the stored value otherwise.
KeptUnlessNonEmpty(new, old) ==
    IF new # None /\ new # Some("") THEN new ELSE old

\* C22: after every registration and every subscribe/unsubscribe there is at
\* most one record per chat; a registration of a chat that has a record sets
\* the active flag and the updated time stamp, and replaces the username and
\* the first name only by a supplied value that is not empty.
C22_OneRowPerChat ==
    [][ /\ \A r1, r2 \in bot'.subscribers : r1.chat_id = r2.chat_id => r1 = r2
        /\ \A r \in bot.subscribers :
              (bot'.op.kind = "upsert_subscriber" /\ bot'.op.chat_id = r.chat_id) =>
                 \E r2 \in bot'.subscribers :
                    /\ r2.chat_id = r.chat_id
                    /\ r2.is_active
                    /\ r2.updated_at = bot'.now /\ r2.updated_at > r.updated_at
                    /\ r2.username = KeptUnlessNonEmpty(bot'.op.username, r.username)
                    /\ r2.first_name
                          = KeptUnlessNonEmpty(bot'.op.first_name, r.first_name)
    ]_vars

\* The identifiers of the rows of a table.
PmidsOf(arts) == {r.pmid : r \in arts}

\* C23: when the try block of run_pipeline has gone through, fetched is the
\* number of rows the run created, skipped_existing the number of fetched
\* records whose identifier was in the store before, the pending items are
\* among the newly inserted identifiers and new_pmids names exactly those;
\* the rows that were in the store are as they were.
C23_IngestCounts ==
    [][(/\ run.pc = "idle" /\ last'.op = "begin" /\ last'.raised = ""
        /\ run'.pc \in {"items", "returned"}) =>
          /\ run'.ing.fetched_count
                = Cardinality(PmidsOf(articles') \ PmidsOf(articles))
          /\ run'.ing.skipped_existing
                = Cardinality({i \in 1..Len(last'.fetched) :
                                 /\ last'.fetched[i] # None
                                 /\ last'.fetched[i][1] \in PmidsOf(articles)})
          /\ {run'.ing.new_pmids[i] : i \in 1..Len(run'.ing.new_pmids)}
                = PmidsOf(articles') \ PmidsOf(articles)
          /\ \A i \in 1..Len(run'.pending) :
                run'.pending[i].pmid \in PmidsOf(articles') \ PmidsOf(articles)
          /\ articles \subseteq articles'
    ]_vars

\* The end class of the right-trimmed text: of its last non-blank line.
TailEnd(text) == IF StripRight(text) = <<>> THEN "none" ELSE StripRight(text)[Len(StripRight(text))].end

C25_BoundaryAllTruncated ==
    (/\ last.op = "is_incomplete_text"
     /\ ~HasMaxTokens(last.finish_reason)
     /\ \/ last.text = <<>>
        \/ (last.text # <<>> /\ last.text[Len(last.text)].end \in {"ellipsis", "period"}))
    => last.result

\* A line that opens a block: a tag line of a requested key.
IsKeyLine(l, keys) == l.tag # NoTag /\ InSeq(l.tag, keys)

\* The index of the first key line after line i, or one past the end.
NextKeyLine(t, keys, i) == IF \E j \in (i + 1)..Len(t) : IsKeyLine(t[j], keys) THEN CHOOSE j \in (i + 1)..Len(t) : IsKeyLine(t[j], keys) /\ \A m \in (i + 1)..(j - 1) : ~IsKeyLine(t[m], keys) ELSE Len(t) + 1

\* The lines i+1 .. j-1 of t as plain text.
PlainLines(t, i, j) == [n \in 1..(j - i - 1) |-> AsPlain(t[i + n])]

\* The candidate of the tag line i: what follows the colon and the lines up
\* to the next key line, joined and trimmed.
CandidateAt(t, keys, i) == JoinStrip((IF t[i].len > 0 THEN <<[len |-> t[i].len, end |-> t[i].end]>> ELSE <<>>) \o PlainLines(t, i, NextKeyLine(t, keys, i)))

\* The lines of v without the blank lines that another blank line follows.
KeptLines(v) == {i \in 1..Len(v) : ~(v[i].len = 0 /\ i < Len(v) /\ v[i + 1].len = 0)}

OneBlankPerRun(v) == [n \in 1..Cardinality(KeptLines(v)) |-> v[CHOOSE i \in KeptLines(v) : Cardinality({j \in KeptLines(v) : j <= i}) = n]]

\* The text is the line "EN_SUMMARY:" followed by N lines, and EN_SUMMARY is
\* one of the requested keys.
C26_Case ==
    /\ last.op = "parse_sections"
    /\ last.text # <<>> /\ last.text[1] = Line("EN_SUMMARY", 0, "none")
    /\ InSeq("EN_SUMMARY", last.keys)

\* A requested key that is on no tag line of the text has the value null.
AbsentKeysNull ==
    \A k \in KeySet(last.keys) :
        (\A i \in 1..Len(last.text) : last.text[i].tag # k) => last.result[k] = None

Candidates(t, keys, k) == {i \in 1..Len(t) : t[i].tag = k /\ CandidateAt(t, keys, i) # <<>>}

\* C27: for every requested key, parse_sections returns the longest of the
\* non-empty candidate blocks of its tag lines (one of the longest when
\* several have that length), wherever in the text that occurrence is, and
\* null when it has none; a block runs from its tag line up to the next tag
\* line of a requested key, so a tag outside the requested set opens none.
C27_LongestCandidate ==
    last.op = "parse_sections" =>
        \A k \in KeySet(last.keys) :
            IF Candidates(StripLines(last.text), last.keys, k) = {}
            THEN last.result[k] = None
            ELSE \E i \in Candidates(StripLines(last.text), last.keys, k) :
                    /\ last.result[k] = Some(OneBlankPerRun(CandidateAt(StripLines(last.text), last.keys, i)))
                    /\ \A j \in Candidates(StripLines(last.text), last.keys, k) :
                          StrLen(CandidateAt(StripLines(last.text), last.keys, j))
                             <= StrLen(CandidateAt(StripLines(last.text), last.keys, i))

\* EN_SUMMARY was on two tag lines, the second block the longer one and
\* holding a line "NOTE: x": the second block came back, the NOTE line in it.
C27_Witness ==
    /\ last.op = "parse_sections"
    /\ last.keys = <<"EN_SUMMARY">>
    /\ last.text = <<Line("EN_SUMMARY", 0, "none"), Line(NoTag, 5, "word"), Line("EN_SUMMARY", 7, "period"), Line("NOTE", 1, "word")>>
    /\ last.result["EN_SUMMARY"] = Some(<<[len |-> 7, end |-> "period"], [len |-> 7, end |-> "word"]>>)

\* C28: the authors line lists the first min(n, 8) names of the list in
\* their order (escaped for HTML), and carries the suffix "(+k)" exactly when
\* n > 8, with k = n - 8.
C28_AuthorsLine ==
    last.op = "make_telegram_html" =>
        /\ Len(last.result.names) = Min(Len(last.authors), 8)
        /\ \A i \in 1..Len(last.result.names) : last.result.names[i] = html_escape(last.authors[i])
        /\ (last.result.more # None) <=> (Len(last.authors) > 8)
        /\ Len(last.authors) > 8 => last.result.more = Some(Len(last.authors) - 8)

\* Ten names were rendered: the first eight and "(+2)".
C28_Witness ==
    /\ last.op = "make_telegram_html"
    /\ Len(last.authors) = 10
    /\ Len(last.result.names) = 8
    /\ last.result.more = Some(2)

IsRateLimit(o) == o.kind = "raise" /\ is_resource_exhausted(o)
IsFatal(o) == o.kind = "raise" /\ ~is_resource_exhausted(o)

C6_Safe ==
    /\ stage.calls <= MAX_MODEL_RETRIES
    /\ stage.pc = "loop" => stage.calls = stage.attempt
    /\ stage.pc = "returned" =>
          \/ stage.payload # None /\ stage.reason = None
          \/ stage.payload = None /\ stage.reason # None

\* C6: an invocation of a stage issues at most 6 model calls, every attempt
\* (a rate-limit retry or a reprompt) taking one from the same counter, and
\* it ends by returning a payload with no reason or no payload with a reason.
C6_AtMostSixCallsThenReturns == []C6_Safe /\ <>(stage.pc = "returned")

\* the sixth call was made after both rate-limit retries and reprompts
C6_Witness ==
    /\ stage.pc = "returned"
    /\ stage.calls = MAX_MODEL_RETRIES
    /\ Len(stage.sleeps) >= 1
    /\ Len(stage.prompt) >= 3

FinishOrUnknown(o) ==
    IF o.finish_reason # "" THEN o.finish_reason ELSE "unknown"

\* C7: no diagnostics file is written while the attempts go on (never per
\* attempt); a stage that has returned without a payload after a call that
\* was answered has used all 6 attempts, its reason is "incomplete" with the
\* finish reason of that last response ("unknown" if it gave none), and the
\* raw-output file of that item and stage has been written once; a stage
\* that succeeds writes no file.
C7_IncompleteWritesOnce ==
    /\ stage.pc = "loop" => stage.files = <<>>
    /\ (stage.pc = "returned" /\ stage.payload # None) => stage.files = <<>>
    /\ (stage.pc = "returned" /\ stage.payload = None
           /\ stage.lastOutcome[1].kind = "response") =>
          /\ stage.calls = MAX_MODEL_RETRIES
          /\ stage.reason =
                Some(<<IF stage.kind = "en" THEN "en_incomplete" ELSE "ru_incomplete",
                       FinishOrUnknown(stage.lastOutcome[1])>>)
          /\ stage.files =
                << <<stage.pmid,
                     IF stage.kind = "en" THEN "summary_raw" ELSE "translate_raw">> >>

\* all six calls were answered, and every answer was rejected
C7_Witness ==
    /\ stage.pc = "returned"
    /\ stage.attempt = MAX_MODEL_RETRIES
    /\ stage.sleeps = <<>>
    /\ Len(stage.prompt) = MAX_MODEL_RETRIES + 1
    /\ stage.reason[1][2] = "FinishReason.STOP"

GoodResponses(kind) ==
    {o \in Responses(kind) :
        /\ o.text = (IF kind = "en" THEN EnGood ELSE RuGood)
        /\ o.finish_reason # "FinishReason.MAX_TOKENS"}

ExpectedPayload(kind) ==
    IF kind = "en" THEN Some(<<[len |-> 250, end |-> "period"]>>)
    ELSE Some(<< <<[len |-> 40, end |-> "word"]>>,
                 <<[len |-> 300, end |-> "period"]>> >>)

\* C8: when every call but the last raised a rate-limit error and the last
\* returned a valid formatted response, the stage has returned that
\* response's payload with no reason, and every call was sent the prompt the
\* stage started with.
C8_RateLimitThenSuccess ==
    (/\ stage.calls >= 1
     /\ Len(stage.sleeps) = stage.calls - 1
     /\ stage.lastOutcome[1] \in GoodResponses(stage.kind)) =>
        /\ stage.pc = "returned"
        /\ stage.payload = ExpectedPayload(stage.kind)
        /\ stage.reason = None
        /\ Len(stage.sent) = stage.calls
        /\ \A i \in 1..Len(stage.sent) :
              /\ Len(stage.sent[i]) = 1
              /\ stage.sent[i][1].template \in {"en_summary", "translate"}

\* two rate-limit errors, then a valid response on the third call
C8_Witness ==
    /\ stage.calls = 3
    /\ Len(stage.sleeps) = 2
    /\ stage.lastOutcome[1] \in GoodResponses(stage.kind)
    /\ stage.payload # None

\* C9: when a model call raises an exception that is not classified as
\* rate-limit/quota, the stage has returned and issues no further call, the
\* reason carries the type name of the exception, and one exception file
\* keyed by the item identifier has been written.
C9_FatalExceptionAborts ==
    (stage.lastOutcome # None /\ IsFatal(stage.lastOutcome[1])) =>
        /\ stage.pc = "returned"
        /\ ~ENABLED StageNext
        /\ stage.payload = None
        /\ stage.reason =
              Some(<<IF stage.kind = "en" THEN "en_exception" ELSE "ru_exception",
                     stage.lastOutcome[1].type>>)
        /\ stage.files =
              << <<stage.pmid,
                   IF stage.kind = "en" THEN "summary_exception"
                   ELSE "translate_exception">> >>

\* the third call raised a timeout, after a retry and a reprompt
C9_Witness ==
    /\ stage.lastOutcome # None
    /\ IsFatal(stage.lastOutcome[1])
    /\ stage.calls = 3
    /\ Len(stage.sleeps) = 1

Sum3(a, b) ==
    [input |-> a.input + b.input, output |-> a.output + b.output,
     total |-> a.total + b.total]

\* C10: the counters a stage returns are the sum of the usage its answered
\* calls reported; the counters of an item are the sum of its two stages;
\* the token totals of the stats are the sum over the items of the run.
C10_TokensAreSummed ==
    /\ last.op = "item" =>
          /\ last.one.en.tokens_used = last.one.en.reported
          /\ last.one.ru.tokens_used = last.one.ru.reported
          /\ last.one.tokens = Sum3(last.one.en.reported, last.one.ru.reported)
    /\ (run.pc = "returned") =>
          /\ run.stats[1].tokens_input = run.reported.input
          /\ run.stats[1].tokens_output = run.reported.output
          /\ run.stats[1].tokens_total = run.reported.total

\* a run returned with an item summarized after rejected attempts and an
\* item that failed after answered calls
C10_Witness ==
    /\ run.pc = "returned"
    /\ run.stats[1].summarized = 1
    /\ run.stats[1].failed = 1
    /\ run.stats[1].tokens_total >= 3 * SomeUsage.total

\* The instruction of the first validator that rejects response o of a
\* stage, in the order format, completeness, minimum length (Stage A only);
\* None when every validator accepts it.
FirstFailing(kind, o) ==
    IF kind = "en"
    THEN LET v == parse_sections(o.text, <<"EN_SUMMARY">>)["EN_SUMMARY"]
         IN IF v = None THEN Some("Format is invalid. Return exactly EN_SUMMARY field.")
            ELSE IF is_incomplete_text(v[1], o.finish_reason) THEN Some("Summary is incomplete. Return a complete summary with a full ending and no ellipsis.")
            ELSE IF StrLen(v[1]) < 200 THEN Some("Summary is too short. Rewrite around 1000 characters.")
            ELSE None
    ELSE LET p == parse_sections(o.text, <<"RU_TITLE", "RU_SUMMARY">>)
         IN IF p["RU_TITLE"] = None \/ p["RU_SUMMARY"] = None THEN Some("Format is invalid. Return only RU_TITLE and RU_SUMMARY.")
            ELSE IF is_incomplete_text(p["RU_SUMMARY"][1], o.finish_reason) THEN Some("RU summary is incomplete. Translate the entire English summary and end with a full sentence.")
            ELSE None

\* This step is one model call of the stage.
OneCall == stage.pc = "loop" /\ stage'.calls = stage.calls + 1

\* This step is a model call whose response a validator rejects.
RejectedCall ==
    /\ OneCall
    /\ stage'.lastOutcome[1].kind = "response"
    /\ FirstFailing(stage.kind, stage'.lastOutcome[1]) # None

\* The rejected call does not end the invocation: nothing is returned or
\* written and the loop goes on with the next value of the counter.
GoesOn ==
    /\ stage'.pc = "loop"
    /\ stage'.attempt = stage.attempt + 1
    /\ stage'.files = stage.files
    /\ stage'.payload = None /\ stage'.reason = None

\* A rate-limit retry leaves the prompt as it was.
RateLimitKeepsPrompt ==
    (OneCall /\ IsRateLimit(stage'.lastOutcome[1])) => stage'.prompt = stage.prompt

\* C29 as stated: a rejected response never ends the invocation, and the
\* instruction of the first failing validator is appended to the current
\* prompt, after all its earlier content; a rate-limit retry leaves the
\* prompt unchanged.
C29_InstructionAppended ==
    [][/\ RejectedCall =>
            /\ GoesOn
            /\ stage'.prompt = Append(stage.prompt, Correction(FirstFailing(stage.kind, stage'.lastOutcome[1])[1]))
        /\ RateLimitKeepsPrompt]_vars

\* C29 amended: a rejected response never ends the invocation; exactly one
\* instruction, that of the first failing validator, is put in front of the
\* current prompt, whose earlier content follows it unchanged; a rate-limit
\* retry leaves the prompt unchanged.
C29_InstructionPrepended ==
    [][/\ RejectedCall =>
            /\ GoesOn
            /\ stage'.prompt = <<Correction(FirstFailing(stage.kind, stage'.lastOutcome[1])[1])>> \o stage.prompt
        /\ RateLimitKeepsPrompt]_vars

\* Stage A was given a short summary ending in "..." after an earlier
\* rejection: the prompt now starts with the completeness instruction, the
\* earlier instruction and the original prompt behind it, and the loop goes on.
C29_Witness ==
    /\ stage.kind = "en" /\ stage.pc = "loop" /\ stage.attempt = 2
    /\ stage.lastOutcome # None
    /\ stage.lastOutcome[1].kind = "response"
    /\ stage.lastOutcome[1].text = <<Line("EN_SUMMARY", 120, "dots")>>
    /\ Len(stage.prompt) = 3
    /\ stage.prompt[1] = Correction("Summary is incomplete. Return a complete summary with a full ending and no ellipsis.")
    /\ stage.prompt[2].template = "correction"
    /\ stage.prompt[3].template = "en_summary"

RECURSIVE TotalSleep4(_)
TotalSleep4(sleeps) == IF sleeps = <<>> THEN 0 ELSE 4 * Head(sleeps).base + Head(sleeps).jitter4 + TotalSleep4(Tail(sleeps))

\* C30: a rate-limit error on the attempt with counter a (0..5) is followed
\* by one sleep of base = min(60, 2^a) seconds plus a jitter between 0 and
\* base/4; the bases are 1, 2, 4, 8, 16, 32 for a = 0..5, always below the
\* cap of 60; the backoff sleeps of one stage add up to at most 1.25 * 63
\* seconds (315 quarters of a second).
C30_Backoff ==
    /\ [][(OneCall /\ IsRateLimit(stage'.lastOutcome[1])) =>
            /\ stage.attempt \in 0..5
            /\ Len(stage'.sleeps) = Len(stage.sleeps) + 1
            /\ SubSeq(stage'.sleeps, 1, Len(stage.sleeps)) = stage.sleeps
            /\ stage'.sleeps[Len(stage'.sleeps)].base = 2 ^ stage.attempt
            /\ stage'.sleeps[Len(stage'.sleeps)].base = <<1, 2, 4, 8, 16, 32>>[stage.attempt + 1]
            /\ stage'.sleeps[Len(stage'.sleeps)].base < 60
            /\ stage'.sleeps[Len(stage'.sleeps)].jitter4 \in 0..stage'.sleeps[Len(stage'.sleeps)].base]_vars
    /\ [](TotalSleep4(stage.sleeps) <= 5 * 63)

\* All six attempts were rate-limited and every jitter was the largest
\* there is: the sleeps were 1.25 times 1, 2, 4, 8, 16 and 32 seconds.
C30_Witness ==
    /\ Len(stage.sleeps) = 6
    /\ \A i \in 1..6 : stage.sleeps[i].base = 2 ^ (i - 1) /\ stage.sleeps[i].jitter4 = stage.sleeps[i].base
    /\ TotalSleep4(stage.sleeps) = 315

\* C31: after a model call whose response a validator rejects, the
\* controller makes the fixed sleep of 0.1 second before the next call: the
\* step adds one sleep that is not a backoff to the sleeps of the stage.
C31_FixedDelayAfterRejection ==
    [][RejectedCall =>
          /\ Len(stage'.sleeps) = Len(stage.sleeps) + 1
          /\ stage'.sleeps[Len(stage'.sleeps)].kind = "fixed"]_vars

\* C32: a network timeout raised by a model call is handled as a transient
\* failure: the call is followed by a backoff sleep and the loop goes on to
\* the next attempt, nothing being returned or written for the item.
C32_TimeoutRetried ==
    [][(OneCall /\ stage'.lastOutcome[1].kind = "raise" /\ stage'.lastOutcome[1].type = "ReadTimeout") =>
          /\ stage'.pc = "loop"
          /\ stage'.attempt = stage.attempt + 1
          /\ Len(stage'.sleeps) = Len(stage.sleeps) + 1
          /\ stage'.files = stage.files]_vars

\* The sum of the counts of a histogram.
RECURSIVE SumCounts(_)
SumCounts(f) == IF DOMAIN f = {} THEN 0 ELSE LET k == CHOOSE x \in DOMAIN f : TRUE IN f[k] + SumCounts([y \in DOMAIN f \ {k} |-> f[y]])

\* A stage invocation of an item started afresh: its first call was sent
\* the prompt built from the arguments alone, it made at most
\* MAX_MODEL_RETRIES calls, and its backoff bases are those of a counter
\* that started at 0.
FreshStage(st, prompt) ==
    st.calls > 0 =>
        /\ st.sent[1] = prompt
        /\ st.calls <= MAX_MODEL_RETRIES
        /\ \A i \in 1..Len(st.sleeps) : st.sleeps[i].base <= 2 ^ (st.calls - 1)

\* C33: in every stats record run_pipeline returns, summarized + failed =
\* pending and the counts of fail_reasons add up to failed; the loop takes
\* the pending items one by one in their order, each once (no item is in
\* pending twice, and the loop has passed all of them when it returns), and
\* each item's stages start with a fresh prompt and a fresh attempt counter
\* whatever became of the items before it.
C33_StatsAddUp ==
    /\ [](run.pc = "returned" =>
            /\ run.stats[1].summarized + run.stats[1].failed = run.stats[1].pending
            /\ SumCounts(run.stats[1].fail_reasons) = run.stats[1].failed
            /\ run.stats[1].pending = Len(run.pending)
            /\ \A i, j \in 1..Len(run.pending) : run.pending[i].pmid = run.pending[j].pmid => i = j
            /\ last.op = "end" => run.idx = Len(run.pending))
    /\ [][(run.pc = "items" /\ last'.op = "item") =>
            /\ last'.pmid = run.pending[run.idx + 1].pmid
            /\ run'.pc = "items" => run'.idx = run.idx + 1 /\ run'.ok + run'.failed = run'.idx
            /\ FreshStage(last'.one.en, build_en_summary_prompt(run.pending[run.idx + 1].abstract_en[1]))
            /\ last'.one.ru.calls > 0 =>
                  FreshStage(last'.one.ru, build_translate_prompt(run.pending[run.idx + 1].title_en, last'.one.en.payload[1]))]_vars

\* A run has returned after its loop: of two pending items one had used up
\* the attempts of a stage and the other was summarized.
C33_Witness ==
    /\ run.pc = "returned" /\ last.op = "end"
    /\ run.stats[1].pending = 2
    /\ run.stats[1].summarized = 1 /\ run.stats[1].failed = 1
    /\ \E k \in DOMAIN run.stats[1].fail_reasons : k[1] \in {"en_incomplete", "ru_incomplete"}

\* The PMIDs of the pending items the loop of the current run has yet to
\* take.
Remaining(r) == IF r.pc = "items" THEN {r.pending[i].pmid : i \in (r.idx + 1)..Len(r.pending)} ELSE {}

\* C34: a stored article without a summary that the current run does not
\* have among the items it has yet to take (an earlier run inserted it
\* and failed on it, or had no client, or left it beyond the limit, or this
\* run already failed on it) is not selected as pending by this or any later
\* run and its summarized_at stays null in the next state, hence forever.
C34_NeverRetried ==
    [][\A r \in articles :
          (r.summarized_at = None /\ r.pmid \notin Remaining(run)) =>
              /\ r.pmid \notin Remaining(run')
              /\ \E r2 \in articles' : r2.pmid = r.pmid /\ r2.summarized_at = None]_vars

\* A later run has selected its pending items while the store holds an
\* article that an earlier run inserted and did not summarize: the article
\* is not among them.
C34_Witness ==
    /\ run.pc = "items" /\ last.op = "begin"
    /\ run.pending # <<>>
    /\ \E r \in articles :
          /\ r.summarized_at = None
          /\ r.pmid \notin Remaining(run)
          /\ \A i \in 1..Len(run.pending) : r.fetched_at[1] < run.pending[i].fetched_at[1]

\* C35: in every state of the scheduler, a delivery record of a date is
\* there only if a fetch-run record of that date is there.
C35_DeliveryOnlyAfterFetchRun ==
    bot.pc # "off" =>
        \A r \in bot.delivery_log : has_fetch_run(bot.fetch_runs, r.target_date)

\* Chat c is an active subscriber.
IsActive(c) == \E r \in bot.subscribers : r.chat_id = c /\ r.is_active

RECURSIVE CountOf(_, _)
CountOf(kind, msgs) == IF msgs = <<>> THEN 0 ELSE (IF Head(msgs) = kind THEN 1 ELSE 0) + CountOf(kind, Tail(msgs))

\* C36: with the threshold passed and the loop iterating, every active
\* subscriber that has not blocked the bot and has no delivery record of the
\* target date eventually has one (or has unsubscribed), and get_updates
\* keeps being called, whichever other chats have blocked the bot.
C36_EveryoneServed ==
    /\ \A c \in Chats :
          [](( /\ c \notin bot.blocked /\ IsActive(c)
               /\ ~was_delivered(bot.delivery_log, c, bot.target))
              => <>(was_delivered(bot.delivery_log, c, bot.target) \/ ~IsActive(c)))
    /\ []<>(bot.pc = "poll")

\* C37: over all the passes of a target date, a chat is sent the header of
\* the digest at most once and each article message at most once.
C37_NoDuplicateMessages ==
    \A c \in Chats :
        /\ CountOf("header", bot.sent[c]) <= 1
        /\ CountOf("article", bot.sent[c]) <= Cardinality(get_summarized_by_date(articles, bot.target))

====
